---- MODULE Spec2Model ----
(***************************************************************************)
(* The client-side cache of attic (src/attic/cache.py): the chunk index,   *)
(* the files cache and the transaction protocol over config / chunks /     *)
(* files with the staging directories txn.tmp and txn.active.              *)
(*                                                                         *)
(* One process uses the cache directory at a time (the exclusive lock on   *)
(* config taken in open).  Every statement of the code that touches the    *)
(* disk is one step, so that the process can die between any two of them.  *)
(***************************************************************************)
EXTENDS Integers, Sequences, FiniteSets, TLC

\* ------------------------------------------------------------------ bounds
\* Refcounts are capped in the guards of add_chunk / chunk_incref.
MaxRef == 2
\* Plaintext lengths handed to add_chunk are 1..MaxSize.
MaxSize == 2

\* Items in an input of the unpacker, and bytes in a garbage run between two
\* of them; the input is fed in chunks of ChunkLen bytes.
MaxItems == 2
MaxRun == 2
ChunkLen == 2

\* Requests that can load items are made while the item cache of a mount
\* holds fewer items than this.
MaxCached == 6
\* The greatest offset and size of a read.
MaxOffset == 6
MaxRead == 3
\* The chunks of a file item in the archives that sync reads.
MaxChunks == 2

\* ------------------------------------------------------- program constants
CacheVersion == 1
AgeLimit == 10

Ids == {"a", "b"}
Sizes == 1..MaxSize
PathHashes == {"p", "q"}
FileNames == {"config", "chunks", "files"}
RepositoryId == "r"

\* The manifests a session can be constructed with: id, timestamp and the
\* (id, size, csize) triples that sync's add() is called with, in order.
Manifests ==
  { [id |-> 1, timestamp |-> 1, refs |-> << >>],
    [id |-> 2, timestamp |-> 2, refs |-> << <<"a", 1, 2>>, <<"a", 1, 3>> >>],
    [id |-> 3, timestamp |-> 1, refs |-> << <<"a", 1, 2>> >>] }
NoManifest == [id |-> 0, timestamp |-> 0, refs |-> << >>]

\* lstat results handed to the files cache.
OldStat == [st_ino |-> 1, st_size |-> 1, st_mtime_ns |-> 1]
NewStat == [st_ino |-> 1, st_size |-> 1, st_mtime_ns |-> 2]
FileStats == { OldStat, NewStat }
\* lstat results of a file replaced by another (inode) or of another length.
InoStat == [st_ino |-> 2, st_size |-> 1, st_mtime_ns |-> 1]
SizeStat == [st_ino |-> 1, st_size |-> 2, st_mtime_ns |-> 1]
LookupStats == FileStats \cup { InoStat, SizeStat }

\* ------------------------------------------------------------ finite maps
EmptyMap == [x \in {} |-> 0]
Put(f, k, v) == (k :> v) @@ f
Remove(f, k) == [x \in (DOMAIN f) \ {k} |-> f[x]]

\* -------------------------------------------------------------- encodings
\* hexlify / unhexlify of the manifest id: '' is the empty id.
Hexlify(id) == << id >>
Unhexlify(h) == IF h = << >> THEN 0 ELSE h[1]

\* key.encrypt: the ciphertext is longer than the plaintext.
EncryptLen(size) == size + 1

\* ChunkIndex.write / ChunkIndex.read: the file is the set of occupied
\* buckets (key, refcount, size, csize).
ChunkIndexWrite(idx) == { << id, idx[id][1], idx[id][2], idx[id][3] >> : id \in DOMAIN idx }
ChunkIndexRead(file) ==
  [id \in { b[1] : b \in file } |->
     LET b == CHOOSE c \in file : c[1] = id IN << b[2], b[3], b[4] >>]

\* ---------------------------------------------------------------- on disk
NoDir == [exists |-> FALSE, f |-> EmptyMap]
EmptyDir == [exists |-> TRUE, f |-> EmptyMap]
\* A directory holding a copy of the three files.
DirOf(d) == [exists |-> TRUE,
             f |-> [n \in FileNames |->
                      IF n = "config" THEN d.config
                      ELSE IF n = "chunks" THEN d.chunks ELSE d.files]]
FileOf(d, n) == IF n = "config" THEN d.config
                ELSE IF n = "chunks" THEN d.chunks ELSE d.files
WithFile(d, n, c) == IF n = "config" THEN [d EXCEPT !.config = c]
                     ELSE IF n = "chunks" THEN [d EXCEPT !.chunks = c]
                     ELSE [d EXCEPT !.files = c]

\* What create() leaves in the cache directory.
CreatedDisk ==
  [config |-> [version |-> CacheVersion, repository |-> RepositoryId,
               manifest |-> << >>, timestamp |-> 0],
   chunks |-> ChunkIndexWrite(EmptyMap),
   files |-> EmptyMap]

VARIABLES
  disk,          \* config, chunks, files in the cache directory
  torn,          \* the files among them that are truncated, not yet rewritten
  tmp,           \* the directory txn.tmp
  active,        \* the directory txn.active
  repo,          \* ids that have a blob in the repository
  pc,            \* the statement the process is at ("closed": no process)
  cont,          \* the operation that called begin_txn / commit
  manifest,      \* self.manifest
  do_sync,       \* the constructor's sync argument
  do_files,      \* self.do_files
  txn_active,    \* self.txn_active
  config,        \* self.config
  manifest_id,   \* self.manifest_id
  timestamp,     \* self.timestamp (0: None)
  chunks,        \* self.chunks
  files_loaded,  \* self.files is not None
  files,         \* self.files
  newest_mtime,  \* self._newest_mtime
  ev,            \* what the last completed call did and returned
  gPre,          \* history: the three files when the last begin_txn started
  gPost,         \* history: the three files the last commit set out to write
  gIdx,          \* history: self.chunks when the last commit was called
  gClean,        \* history: that commit completed and no begin_txn followed
  gNull,         \* history: begin_txn was called and nothing else since
  gRef,          \* history: references taken minus references dropped, per id
  gLog,          \* history: the disk steps of the commit in progress
  gDied,         \* history: the last process died with txn.active present
  gStart,        \* history: the files file when the session was constructed
  gSeen,         \* history: the path hashes hit or memorized in the session
  lk,            \* per process: its UpgradableLock (fd, lock held, is_exclusive, blocked call)
  lev,           \* what the last call on an UpgradableLock did
  sess,          \* per process: where its Cache session on the shared cache
                 \* directory is; whose txn.active the directory has
  uleft,         \* unpacker: the chunks not fed yet
  ubuf,          \* unpacker: the bytes fed and not decoded yet
  uout,          \* unpacker: the items yielded so far
  umode,         \* the unpacker's state: "synced" or "resync"
  ucut,          \* where resync() is called, and history: the bytes fed
                 \* before and after it
  usrc,          \* history: the segments the input was made of
  mnt,           \* the mounted AtticOperations object (st = "none": not mounted)
  fev,           \* what the last request to the mount did and returned
  frepo          \* the chunk ids the mounted repository has a blob for

diskVars == << disk, torn, tmp, active >>
sessVars == << manifest, do_sync, do_files >>
memVars == << txn_active, config, manifest_id, timestamp, chunks,
              files_loaded, files, newest_mtime >>
histVars == << gPre, gPost, gIdx, gClean, gNull, gRef, gLog, gDied >>
fileHist == << gStart, gSeen >>
cacheVars == << disk, torn, tmp, active, repo, pc, cont, manifest, do_sync, do_files,
                txn_active, config, manifest_id, timestamp, chunks, files_loaded,
                files, newest_mtime, ev, gPre, gPost, gIdx, gClean, gNull, gRef,
                gLog, gDied, gStart, gSeen >>
lockVars == << lk, lev, sess >>
unpackVars == << uleft, ubuf, uout, umode, ucut, usrc >>
fuseVars == << mnt, fev, frepo >>
extVars == << lockVars, unpackVars, fuseVars >>
vars == << cacheVars, lockVars, unpackVars, fuseVars >>

NoCont == [op |-> "none", id |-> "", size |-> 0, fail |-> "none"]
\* op: the call; res: how it ended; old / new: the index entry of id before
\* and after; puts, dels, encs: the calls of repository.put, repository.delete
\* and key.encrypt it made; stats: the arguments of its stats.update; ret:
\* what it returned; null: it was a commit and nothing was called between
\* begin_txn and it.
NoEv == [op |-> "none", id |-> "", size |-> 0, res |-> "", old |-> << >>,
         new |-> << >>, puts |-> 0, dels |-> 0, encs |-> 0, stats |-> << >>,
         ret |-> << >>, null |-> FALSE]

NoRefs == [id \in Ids |-> 0]
Count(idx, id) == IF id \in DOMAIN idx THEN idx[id][1] ELSE 0
RefsOf(idx) == [id \in Ids |-> Count(idx, id)]

\* The processes that lock the same file.
Procs == { 1, 2 }
NoLock == [fd |-> "none", held |-> "none", is_exclusive |-> FALSE,
           wait |-> "none", call |-> "none"]
\* p: the process; op: the call; res: how it ended; contended: the other
\* process held a lock when it was made; was: is_exclusive before it.
NoLockEv == [p |-> 0, op |-> "none", res |-> "", contended |-> FALSE, was |-> FALSE]
\* No session of any process, no txn.active; ev: the last call of a session,
\* with the owner of the txn.active it found (removed or not).
NoSessEv == [p |-> 0, op |-> "none", res |-> "", found |-> 0, live |-> FALSE]
NoSessions ==
  [at |-> [p \in Procs |-> "out"], txn |-> [p \in Procs |-> FALSE], active |-> 0,
   ev |-> NoSessEv]
LockInit ==
  /\ lk = [p \in Procs |-> NoLock]
  /\ lev = NoLockEv
  /\ sess = NoSessions

\* No unpacker.
NoCut == [st |-> "none", left |-> 0, pre |-> << >>, post |-> << >>]
UnpackIdle ==
  /\ uleft = << >>
  /\ ubuf = << >>
  /\ uout = << >>
  /\ umode = "synced"
  /\ ucut = NoCut
  /\ usrc = << >>

\* No mount.
NoMount == [st |-> "none"]
\* op: the request; res: how it ended; val: what it returned; fetched: the
\* ids repository.get was called with, in order.
NoFuseEv == [op |-> "none", args |-> << >>, res |-> "", val |-> << >>, fetched |-> << >>]
FuseIdle ==
  /\ mnt = NoMount
  /\ fev = NoFuseEv
  /\ frepo = {}

CacheInit ==
  /\ disk = CreatedDisk
  /\ torn = {}
  /\ tmp = NoDir
  /\ active = NoDir
  /\ repo = {}
  /\ pc = << "closed", 0 >>
  /\ cont = NoCont
  /\ manifest = NoManifest
  /\ do_sync = FALSE
  /\ do_files = FALSE
  /\ txn_active = FALSE
  /\ config = CreatedDisk.config
  /\ manifest_id = 0
  /\ timestamp = 0
  /\ chunks = EmptyMap
  /\ files_loaded = FALSE
  /\ files = EmptyMap
  /\ newest_mtime = 0
  /\ ev = NoEv
  /\ gPre = CreatedDisk
  /\ gPost = CreatedDisk
  /\ gIdx = EmptyMap
  /\ gClean = TRUE
  /\ gNull = FALSE
  /\ gRef = NoRefs
  /\ gLog = << >>
  /\ gDied = FALSE
  /\ gStart = EmptyMap
  /\ gSeen = {}

Init == CacheInit /\ LockInit /\ UnpackIdle /\ FuseIdle


\* ----------------------------------------------------------- pure helpers
Max(a, b) == IF a >= b THEN a ELSE b

\* shutil.rmtree empties the directory, then removes it.
RmTreeStep(dir) == IF dir.f # EmptyMap THEN EmptyDir ELSE NoDir

\* os.rename(src, dst) of a directory fails when src is missing or dst is a
\* directory that is not empty.
RenameFails(src, dst) == ~src.exists \/ (dst.exists /\ dst.f # EmptyMap)

\* The order shutil.copy is called in by begin_txn and by rollback.
CopyOrderNoFiles == << "config", "chunks" >>
CopyOrder == << "config", "chunks", "files" >>

\* The order of commit's steps on disk.
CommitOrderRenameEarly == << "files", "config", "rename", "chunks", "rmtree" >>
CommitOrderConfigFirst == << "config", "files", "chunks", "rename", "rmtree" >>
CommitOrderNoChunks == << "files", "config", "rename", "rmtree" >>
CommitOrder == << "files", "config", "chunks", "rename", "rmtree" >>

\* __init__: the constructor syncs when asked to and the ids differ ...
NeedsSyncAlways(sync, mid, recorded) == sync
NeedsSync(sync, mid, recorded) == sync /\ mid # recorded
\* ... unless the cache is newer than the repository.
ReplayGuardNotStrict(ts, mts) == ts # 0 /\ ts >= mts
ReplayGuard(ts, mts) == ts # 0 /\ ts > mts

\* _read_files: every entry read is one run older.
ReadFilesSameAge(file) == file
ReadFiles(file) == [h \in DOMAIN file |-> [file[h] EXCEPT !.age = @ + 1]]

\* commit: the entries of the files cache that are written back.
FilesWriteOneMore(fs, newest) ==
  [h \in { k \in DOMAIN fs : fs[k].age <= AgeLimit /\ fs[k].mtime < newest } |-> fs[h]]
FilesWrite(fs, newest) ==
  [h \in { k \in DOMAIN fs : fs[k].age < AgeLimit /\ fs[k].mtime < newest } |-> fs[h]]

\* commit: the config written back.
ConfigWriteBumpsVersion(cfg, m) ==
  [cfg EXCEPT !.manifest = Hexlify(m.id), !.timestamp = m.timestamp, !.version = cfg.version + 1]
ConfigWrite(cfg, m) ==
  [cfg EXCEPT !.manifest = Hexlify(m.id), !.timestamp = m.timestamp]

\* seen_chunk: the refcount, 0 for an unknown id.
SeenChunk(idx, id) == IF id \in DOMAIN idx THEN idx[id][1] ELSE 0

\* add_chunk, for an id not seen.
AddIdx(idx, id, size) == Put(idx, id, << 1, size, EncryptLen(size) >>)

\* add_chunk when key.encrypt or repository.put raises: the statement that
\* stores the entry is not reached.
AfterFailedAddStored(idx, id, size) == AddIdx(idx, id, size)
AfterFailedAdd(idx, id, size) == idx

\* chunk_incref
IncrefIdxSwapped(idx, id) == Put(idx, id, << idx[id][1] + 1, idx[id][3], idx[id][2] >>)
IncrefIdx(idx, id) == Put(idx, id, << idx[id][1] + 1, idx[id][2], idx[id][3] >>)

\* chunk_decref: the last reference erases the entry.
IsLastRefOff(count) == count = 0
IsLastRefEarly(count) == count <= 2
IsLastRef(count) == count = 1
DecrefIdxKeeps(idx, id) == Put(idx, id, << idx[id][1] - 1, idx[id][2], idx[id][3] >>)
DecrefIdx(idx, id) ==
  IF IsLastRef(idx[id][1]) THEN Remove(idx, id)
  ELSE Put(idx, id, << idx[id][1] - 1, idx[id][2], idx[id][3] >>)

\* sync's add()
SyncAddLast(idx, r) == Put(idx, r[1], << Count(idx, r[1]) + 1, r[2], r[3] >>)
SyncAdd(idx, r) ==
  IF r[1] \in DOMAIN idx THEN Put(idx, r[1], << idx[r[1]][1] + 1, idx[r[1]][2], idx[r[1]][3] >>)
  ELSE Put(idx, r[1], << 1, r[2], r[3] >>)
RECURSIVE SyncFold(_, _)
SyncFold(idx, refs) ==
  IF refs = << >> THEN idx ELSE SyncFold(SyncAdd(idx, Head(refs)), Tail(refs))
\* sync: the index is cleared and rebuilt from the manifest's archives.
SyncIndex(refs) == SyncFold(EmptyMap, refs)

\* What commit sets out to leave in the cache directory.
Intended(d, cfg, m, idx, loaded, fs, newest) ==
  [config |-> ConfigWrite(cfg, m),
   chunks |-> ChunkIndexWrite(idx),
   files |-> IF loaded THEN FilesWrite(fs, newest) ELSE d.files]


\* ------------------------------------------------------------ the process
Idle == << "idle", 0 >>
Closed == << "closed", 0 >>

\* The process is gone (killed, exited, or its constructor raised): only the
\* disk and the repository remain.
EndProcess(e) ==
  /\ pc' = Closed
  /\ cont' = NoCont
  /\ manifest' = NoManifest
  /\ do_sync' = FALSE
  /\ do_files' = FALSE
  /\ txn_active' = FALSE
  /\ config' = CreatedDisk.config
  /\ manifest_id' = 0
  /\ timestamp' = 0
  /\ chunks' = EmptyMap
  /\ files_loaded' = FALSE
  /\ files' = EmptyMap
  /\ newest_mtime' = 0
  /\ ev' = e
  /\ gDied' = active.exists
  /\ gNull' = FALSE
  /\ gLog' = << >>
  /\ gRef' = NoRefs
  /\ gIdx' = IF gClean THEN gIdx ELSE EmptyMap
  /\ UNCHANGED << gPre, gPost, gClean >>

\* A call that raised gives control back to the caller; raised inside the
\* constructor, no Cache object comes to exist.
Raise(e) ==
  IF cont.op = "sync"
  THEN EndProcess(e)
  ELSE /\ pc' = Idle
       /\ cont' = NoCont
       /\ ev' = e
       /\ gNull' = FALSE
       /\ gLog' = << >>
       /\ UNCHANGED << sessVars, memVars, gPre, gPost, gIdx, gClean, gRef, gDied >>

\* The process is killed, or exits, at any statement.
Crash ==
  /\ pc # Closed
  /\ EndProcess([NoEv EXCEPT !.op = "crash"])
  /\ UNCHANGED << diskVars, repo >>
  /\ gStart' = EmptyMap
  /\ gSeen' = {}
  /\ UNCHANGED extVars

\* Cache(repository, key, manifest, sync=s, do_files=df) on an existing
\* cache directory: __init__ up to the call of open().
New(m, s, df) ==
  /\ pc = Closed
  /\ manifest' = m
  /\ do_sync' = s
  /\ do_files' = df
  /\ pc' = << "rb_tmp", 0 >>
  /\ ev' = NoEv
  /\ UNCHANGED << diskVars, repo, cont, memVars, histVars >>
  /\ UNCHANGED fileHist
  /\ UNCHANGED extVars

\* ---------------------------------------------------------------- rollback
\* if exists(txn.tmp): rmtree(txn.tmp)
RollbackTmp ==
  /\ pc = << "rb_tmp", 0 >>
  /\ IF tmp.exists
     THEN /\ tmp' = RmTreeStep(tmp)
          /\ pc' = IF RmTreeStep(tmp).exists THEN pc ELSE << "rb_copy", 1 >>
     ELSE /\ tmp' = tmp
          /\ pc' = << "rb_copy", 1 >>
  /\ UNCHANGED << disk, torn, active, repo, cont, sessVars, memVars, ev, histVars >>
  /\ UNCHANGED fileHist
  /\ UNCHANGED extVars

\* if exists(txn.active): shutil.copy(txn.active/<file>, path) opens the
\* destination for writing, which truncates it ...
RollbackCopy ==
  /\ pc[1] = "rb_copy"
  /\ IF active.exists
     THEN /\ torn' = torn \cup { CopyOrder[pc[2]] }
          /\ pc' = << "rb_write", pc[2] >>
     ELSE /\ torn' = torn
          /\ pc' = << "load", 0 >>
  /\ UNCHANGED << disk, tmp, active, repo, cont, sessVars, memVars, ev, histVars >>
  /\ UNCHANGED fileHist
  /\ UNCHANGED extVars

\* ... and then writes the copy.
RollbackWrite ==
  /\ pc[1] = "rb_write"
  /\ LET n == CopyOrder[pc[2]] IN
       /\ disk' = WithFile(disk, n, active.f[n])
       /\ torn' = torn \ { n }
  /\ pc' = IF pc[2] < Len(CopyOrder) THEN << "rb_copy", pc[2] + 1 >> ELSE << "rb_rename", 0 >>
  /\ UNCHANGED << tmp, active, repo, cont, sessVars, memVars, ev, histVars >>
  /\ UNCHANGED fileHist
  /\ UNCHANGED extVars

\* os.rename(txn.active, txn.tmp)
RollbackRename ==
  /\ pc = << "rb_rename", 0 >>
  /\ IF RenameFails(active, tmp)
     THEN /\ EndProcess([NoEv EXCEPT !.op = "new", !.res = "OSError"])
          /\ UNCHANGED << diskVars, repo >>
     ELSE /\ tmp' = active
          /\ active' = NoDir
          /\ pc' = << "rb_rm", 0 >>
          /\ UNCHANGED << disk, torn, repo, cont, sessVars, memVars, ev, histVars >>
  /\ UNCHANGED fileHist
  /\ UNCHANGED extVars

\* if exists(txn.tmp): rmtree(txn.tmp)
RollbackRm ==
  /\ pc = << "rb_rm", 0 >>
  /\ IF tmp.exists
     THEN /\ tmp' = RmTreeStep(tmp)
          /\ pc' = IF RmTreeStep(tmp).exists THEN pc ELSE << "load", 0 >>
     ELSE /\ tmp' = tmp
          /\ pc' = << "load", 0 >>
  /\ UNCHANGED << disk, torn, active, repo, cont, sessVars, memVars, ev, histVars >>
  /\ UNCHANGED fileHist
  /\ UNCHANGED extVars

\* The rest of rollback and of open (txn_active = False; config and chunks are
\* read, files is None), then the constructor's decision to sync.
Load ==
  /\ pc = << "load", 0 >>
  /\ IF torn \cap { "config", "chunks" } # {}
     THEN EndProcess([NoEv EXCEPT !.op = "new", !.res = "Exception"])
     ELSE LET mid == Unhexlify(disk.config.manifest)
              ts == disk.config.timestamp
              idx == ChunkIndexRead(disk.chunks)
              e == [NoEv EXCEPT !.op = "new", !.old = << mid, ts >>,
                                !.new = << manifest.id, manifest.timestamp, do_sync >>]
          IN IF NeedsSync(do_sync, manifest.id, mid) /\ ReplayGuard(ts, manifest.timestamp)
             THEN EndProcess([e EXCEPT !.res = "RepositoryReplay"])
             ELSE /\ txn_active' = FALSE
                  /\ config' = disk.config
                  /\ manifest_id' = mid
                  /\ timestamp' = ts
                  /\ chunks' = idx
                  /\ files_loaded' = FALSE
                  /\ files' = EmptyMap
                  /\ newest_mtime' = 0
                  /\ gRef' = RefsOf(idx)
                  /\ IF NeedsSync(do_sync, manifest.id, mid)
                     THEN /\ pc' = << "b_mkdir", 0 >>
                          /\ cont' = [NoCont EXCEPT !.op = "sync"]
                          /\ ev' = [e EXCEPT !.op = "open", !.res = "sync"]
                     ELSE /\ pc' = Idle
                          /\ cont' = NoCont
                          /\ ev' = [e EXCEPT !.res = "ok"]
                  /\ do_sync' = FALSE
                  /\ gPre' = disk
                  /\ gPost' = disk
                  /\ UNCHANGED << manifest, do_files, gIdx, gClean, gNull, gLog, gDied >>
  /\ UNCHANGED << diskVars, repo >>
  /\ gStart' = IF pc' = Closed THEN EmptyMap ELSE disk.files
  /\ gSeen' = {}
  /\ UNCHANGED extVars

\* --------------------------------------------------------------- begin_txn
\* os.mkdir(txn.tmp)
BeginMkdir ==
  /\ pc = << "b_mkdir", 0 >>
  /\ IF tmp.exists
     THEN /\ Raise([NoEv EXCEPT !.op = cont.op, !.id = cont.id, !.res = "OSError"])
          /\ UNCHANGED << diskVars, repo >>
     ELSE /\ tmp' = EmptyDir
          /\ pc' = << "b_copy", 1 >>
          /\ gPre' = IF active.exists THEN gPre ELSE disk
          /\ gPost' = IF active.exists THEN gPost ELSE disk
          /\ gClean' = FALSE
          /\ gIdx' = EmptyMap
          /\ UNCHANGED << disk, torn, active, repo, cont, sessVars, memVars, ev,
                          gNull, gRef, gLog, gDied >>
  /\ UNCHANGED fileHist
  /\ UNCHANGED extVars

\* shutil.copy(<file>, txn.tmp) for config, chunks, files
BeginCopy ==
  /\ pc[1] = "b_copy"
  /\ LET n == CopyOrder[pc[2]] IN
       tmp' = [tmp EXCEPT !.f = Put(tmp.f, n, FileOf(disk, n))]
  /\ pc' = IF pc[2] < Len(CopyOrder) THEN << "b_copy", pc[2] + 1 >> ELSE << "b_rename", 0 >>
  /\ UNCHANGED << disk, torn, active, repo, cont, sessVars, memVars, ev, histVars >>
  /\ UNCHANGED fileHist
  /\ UNCHANGED extVars

\* Where the caller of begin_txn goes on.
AfterBegin(c) ==
  IF c.op = "begin" THEN Idle
  ELSE IF c.op = "sync" THEN << "sync", 0 >>
  ELSE << "body", 0 >>

\* os.rename(txn.tmp, txn.active); self.txn_active = True
BeginRename ==
  /\ pc = << "b_rename", 0 >>
  /\ IF RenameFails(tmp, active)
     THEN /\ Raise([NoEv EXCEPT !.op = cont.op, !.id = cont.id, !.res = "OSError"])
          /\ UNCHANGED << diskVars, repo >>
     ELSE /\ active' = tmp
          /\ tmp' = NoDir
          /\ txn_active' = TRUE
          /\ pc' = AfterBegin(cont)
          /\ cont' = IF cont.op = "begin" THEN NoCont ELSE cont
          /\ ev' = IF cont.op = "begin" THEN [NoEv EXCEPT !.op = "begin", !.res = "ok"] ELSE NoEv
          /\ gNull' = (cont.op = "begin")
          /\ UNCHANGED << disk, torn, repo, sessVars, config, manifest_id, timestamp,
                          chunks, files_loaded, files, newest_mtime,
                          gPre, gPost, gIdx, gClean, gRef, gLog, gDied >>
  /\ UNCHANGED fileHist
  /\ UNCHANGED extVars

\* begin_txn() called by the user of the cache.
BeginTxn ==
  /\ pc = Idle
  /\ pc' = << "b_mkdir", 0 >>
  /\ cont' = [NoCont EXCEPT !.op = "begin"]
  /\ ev' = NoEv
  /\ gNull' = FALSE
  /\ UNCHANGED << diskVars, repo, sessVars, memVars, gPre, gPost, gIdx, gClean,
                  gRef, gLog, gDied >>
  /\ UNCHANGED fileHist
  /\ UNCHANGED extVars


\* ------------------------------------------- add_chunk / incref / decref
EntryOf(idx, id) == IF id \in DOMAIN idx THEN idx[id] ELSE << >>

\* The statements of add_chunk, chunk_incref and chunk_decref that follow
\* the begin_txn on demand.
ChunkBody(c) ==
  LET id == c.id
      old == EntryOf(chunks, id)
      e == [NoEv EXCEPT !.op = c.op, !.id = id, !.size = c.size, !.old = old]
      inc == IncrefIdx(chunks, id)
      add == AddIdx(chunks, id, c.size)
      dec == DecrefIdx(chunks, id)
  IN
  IF c.op = "add" /\ SeenChunk(chunks, id) = 0 /\ c.fail # "none"
  THEN /\ chunks' = AfterFailedAdd(chunks, id, c.size)
       /\ UNCHANGED << repo, gRef >>
       /\ ev' = [e EXCEPT !.res = IF c.fail = "encrypt" THEN "EncryptError" ELSE "PutError",
                          !.encs = 1, !.puts = IF c.fail = "put" THEN 1 ELSE 0]
  ELSE IF c.op = "add" /\ SeenChunk(chunks, id) = 0
  THEN /\ chunks' = add
       /\ repo' = repo \cup { id }
       /\ gRef' = [gRef EXCEPT ![id] = @ + 1]
       /\ ev' = [e EXCEPT !.res = "ok", !.new = add[id], !.puts = 1, !.encs = 1,
                          !.stats = << c.size, add[id][3], TRUE >>,
                          !.ret = << id, c.size, add[id][3] >>]
  ELSE IF id \notin DOMAIN chunks
  THEN /\ UNCHANGED << chunks, repo, gRef >>
       /\ ev' = [e EXCEPT !.res = "KeyError"]
  ELSE IF c.op \in { "add", "incref" }
  THEN /\ chunks' = inc
       /\ repo' = repo
       /\ gRef' = [gRef EXCEPT ![id] = @ + 1]
       /\ ev' = [e EXCEPT !.res = "ok", !.new = inc[id],
                          !.stats = << old[2], old[3], FALSE >>,
                          !.ret = << id, old[2], old[3] >>]
  ELSE /\ chunks' = dec
       /\ repo' = IF IsLastRef(old[1]) THEN repo \ { id } ELSE repo
       /\ gRef' = [gRef EXCEPT ![id] = @ - 1]
       /\ ev' = [e EXCEPT !.res = "ok", !.new = EntryOf(dec, id),
                          !.dels = IF IsLastRef(old[1]) THEN 1 ELSE 0,
                          !.stats = << 0 - old[2], 0 - old[3], IsLastRef(old[1]) >>]

\* A call of add_chunk, chunk_incref or chunk_decref: begin_txn first when no
\* transaction is active.
ChunkCall(c) ==
  /\ pc = Idle
  /\ gNull' = FALSE
  /\ IF txn_active
     THEN /\ ChunkBody(c)
          /\ pc' = Idle
          /\ cont' = NoCont
     ELSE /\ pc' = << "b_mkdir", 0 >>
          /\ cont' = c
          /\ ev' = NoEv
          /\ UNCHANGED << chunks, repo, gRef >>
  /\ UNCHANGED << diskVars, sessVars, txn_active, config, manifest_id, timestamp,
                  files_loaded, files, newest_mtime, gPre, gPost, gIdx, gClean,
                  gLog, gDied >>
  /\ UNCHANGED fileHist
  /\ UNCHANGED extVars

AddChunk(id, size) ==
  /\ Count(chunks, id) < MaxRef
  /\ ChunkCall([op |-> "add", id |-> id, size |-> size, fail |-> "none"])

\* add_chunk of an id not seen, with key.encrypt or repository.put raising
\* (f is "encrypt" or "put"); a put that raises has stored nothing.
AddChunkFails(id, size, f) ==
  /\ SeenChunk(chunks, id) = 0
  /\ ChunkCall([op |-> "add", id |-> id, size |-> size, fail |-> f])

ChunkIncref(id) ==
  /\ Count(chunks, id) < MaxRef
  /\ ChunkCall([op |-> "incref", id |-> id, size |-> 0, fail |-> "none"])

ChunkDecref(id) ==
  ChunkCall([op |-> "decref", id |-> id, size |-> 0, fail |-> "none"])

\* The call goes on after its begin_txn.
ChunkAfterBegin ==
  /\ pc = << "body", 0 >>
  /\ ChunkBody(cont)
  /\ pc' = Idle
  /\ cont' = NoCont
  /\ UNCHANGED << diskVars, sessVars, txn_active, config, manifest_id, timestamp,
                  files_loaded, files, newest_mtime, gPre, gPost, gIdx, gClean,
                  gNull, gLog, gDied >>
  /\ UNCHANGED fileHist
  /\ UNCHANGED extVars

\* -------------------------------------------------------------------- sync
\* sync, after its begin_txn: the index is rebuilt; then __init__ calls commit.
Sync ==
  /\ pc = << "sync", 0 >>
  /\ chunks' = SyncIndex(manifest.refs)
  /\ gRef' = RefsOf(chunks')
  /\ pc' = << "commit", 1 >>
  /\ gPost' = Intended(disk, config, manifest, chunks', files_loaded, files, newest_mtime)
  /\ gIdx' = chunks'
  /\ gLog' = << >>
  /\ UNCHANGED << diskVars, repo, cont, sessVars, txn_active, config, manifest_id,
                  timestamp, files_loaded, files, newest_mtime, ev, gPre, gClean,
                  gNull, gDied >>
  /\ UNCHANGED fileHist
  /\ UNCHANGED extVars

\* ------------------------------------------------------------------ commit
\* commit() called by the user of the cache.
CommitGoesOnAlways == TRUE
\* if not self.txn_active: return
CommitGoesOn == txn_active
Commit ==
  /\ pc = Idle
  /\ IF CommitGoesOn
     THEN /\ pc' = << "commit", 1 >>
          /\ cont' = [NoCont EXCEPT !.op = "commit"]
          /\ ev' = NoEv
          /\ gPost' = Intended(disk, config, manifest, chunks, files_loaded, files, newest_mtime)
          /\ gIdx' = chunks
          /\ gLog' = << >>
          /\ UNCHANGED gNull
     ELSE /\ ev' = [NoEv EXCEPT !.op = "commit", !.res = "noop"]
          /\ gNull' = FALSE
          /\ UNCHANGED << pc, cont, gPost, gIdx, gLog >>
  /\ UNCHANGED << diskVars, repo, sessVars, memVars, gPre, gClean, gRef, gDied >>
  /\ UNCHANGED fileHist
  /\ UNCHANGED extVars

CommitStep == IF pc[1] \in { "commit", "commit_w" } THEN CommitOrder[pc[2]] ELSE "none"

\* if self.files is not None: open(files, 'wb') truncates the file ...
CommitFiles ==
  /\ pc[1] = "commit" /\ CommitStep = "files"
  /\ IF files_loaded
     THEN /\ torn' = torn \cup { "files" }
          /\ pc' = << "commit_w", pc[2] >>
     ELSE /\ torn' = torn
          /\ pc' = << "commit", pc[2] + 1 >>
  /\ UNCHANGED << disk, tmp, active, repo, cont, sessVars, memVars, ev, histVars >>
  /\ UNCHANGED fileHist
  /\ UNCHANGED extVars

\* ... and the entries that pass the filter are written.
CommitFilesWrite ==
  /\ pc[1] = "commit_w" /\ CommitStep = "files"
  /\ disk' = [disk EXCEPT !.files = FilesWrite(files, newest_mtime)]
  /\ torn' = torn \ { "files" }
  /\ gLog' = Append(gLog, "files")
  /\ pc' = << "commit", pc[2] + 1 >>
  /\ UNCHANGED << tmp, active, repo, cont, sessVars, memVars, ev,
                  gPre, gPost, gIdx, gClean, gNull, gRef, gDied >>
  /\ UNCHANGED fileHist
  /\ UNCHANGED extVars

\* config.set(manifest), config.set(timestamp); open(config, 'w') ...
CommitConfig ==
  /\ pc[1] = "commit" /\ CommitStep = "config"
  /\ config' = ConfigWrite(config, manifest)
  /\ torn' = torn \cup { "config" }
  /\ pc' = << "commit_w", pc[2] >>
  /\ UNCHANGED << disk, tmp, active, repo, cont, sessVars, txn_active, manifest_id,
                  timestamp, chunks, files_loaded, files, newest_mtime, ev, histVars >>
  /\ UNCHANGED fileHist
  /\ UNCHANGED extVars

\* ... config.write(fd)
CommitConfigWrite ==
  /\ pc[1] = "commit_w" /\ CommitStep = "config"
  /\ disk' = [disk EXCEPT !.config = config]
  /\ torn' = torn \ { "config" }
  /\ gLog' = Append(gLog, "config")
  /\ pc' = << "commit", pc[2] + 1 >>
  /\ UNCHANGED << tmp, active, repo, cont, sessVars, memVars, ev,
                  gPre, gPost, gIdx, gClean, gNull, gRef, gDied >>
  /\ UNCHANGED fileHist
  /\ UNCHANGED extVars

\* self.chunks.write(chunks)
CommitChunks ==
  /\ pc[1] = "commit" /\ CommitStep = "chunks"
  /\ disk' = [disk EXCEPT !.chunks = ChunkIndexWrite(chunks)]
  /\ gLog' = Append(gLog, "chunks")
  /\ pc' = << "commit", pc[2] + 1 >>
  /\ UNCHANGED << torn, tmp, active, repo, cont, sessVars, memVars, ev,
                  gPre, gPost, gIdx, gClean, gNull, gRef, gDied >>
  /\ UNCHANGED fileHist
  /\ UNCHANGED extVars

\* os.rename(txn.active, txn.tmp)
CommitRename ==
  /\ pc[1] = "commit" /\ CommitStep = "rename"
  /\ IF RenameFails(active, tmp)
     THEN /\ Raise([NoEv EXCEPT !.op = cont.op, !.res = "OSError"])
          /\ UNCHANGED << diskVars, repo >>
     ELSE /\ tmp' = active
          /\ active' = NoDir
          /\ gLog' = Append(gLog, "rename")
          /\ pc' = << "commit", pc[2] + 1 >>
          /\ UNCHANGED << disk, torn, repo, cont, sessVars, memVars, ev,
                          gPre, gPost, gIdx, gClean, gNull, gRef, gDied >>
  /\ UNCHANGED fileHist
  /\ UNCHANGED extVars

\* shutil.rmtree(txn.tmp); self.txn_active = False
CommitRm ==
  /\ pc[1] = "commit" /\ CommitStep = "rmtree"
  /\ tmp' = RmTreeStep(tmp)
  /\ IF RmTreeStep(tmp).exists
     THEN UNCHANGED << pc, cont, txn_active, ev, gPre, gClean, gNull, gLog, gDied >>
     ELSE /\ pc' = Idle
          /\ cont' = NoCont
          /\ txn_active' = FALSE
          /\ ev' = [NoEv EXCEPT !.op = IF cont.op = "sync" THEN "new" ELSE "commit",
                                !.res = IF cont.op = "sync" THEN "synced" ELSE "ok",
                                !.old = << gPre >>, !.null = gNull]
          /\ gClean' = TRUE
          /\ gNull' = FALSE
          /\ gLog' = << >>
          /\ gPre' = gPost
          /\ gDied' = FALSE
  /\ UNCHANGED << disk, torn, active, repo, sessVars, config, manifest_id, timestamp,
                  chunks, files_loaded, files, newest_mtime, gPost, gIdx, gRef >>
  /\ UNCHANGED fileHist
  /\ UNCHANGED extVars

\* ------------------------------------------------------------- files cache
FileIds == { << "a" >> }

\* file_known_and_unchanged: the entry is that of st.
StatMatchesAnyInode(entry, st) ==
  entry.size = st.st_size /\ entry.mtime = st.st_mtime_ns
StatMatches(entry, st) ==
  entry.size = st.st_size /\ entry.mtime = st.st_mtime_ns /\ entry.ino = st.st_ino

\* memorize_file: the entry stored.
EntryFor(st, ids) ==
  [age |-> 0, ino |-> st.st_ino, size |-> st.st_size, mtime |-> st.st_mtime_ns, ids |-> ids]

\* file_known_and_unchanged(path_hash, st).  In ev, old is the entry of
\* path_hash once the files cache is loaded and new is st.
FileKnownAndUnchanged(h, st) ==
  /\ pc = Idle
  /\ gNull' = FALSE
  /\ IF ~do_files
     THEN /\ ev' = [NoEv EXCEPT !.op = "lookup", !.id = h, !.res = "None", !.new = << st >>]
          /\ UNCHANGED << files_loaded, files, newest_mtime, gSeen >>
     ELSE LET fs == IF files_loaded THEN files ELSE ReadFiles(disk.files)
              hit == h \in DOMAIN fs /\ StatMatches(fs[h], st)
          IN /\ files_loaded' = TRUE
             /\ newest_mtime' = IF files_loaded THEN newest_mtime ELSE 0
             /\ files' = IF hit THEN Put(fs, h, [fs[h] EXCEPT !.age = 0]) ELSE fs
             /\ gSeen' = IF hit THEN gSeen \cup { h } ELSE gSeen
             /\ ev' = [NoEv EXCEPT !.op = "lookup", !.id = h,
                                   !.res = IF hit THEN "hit" ELSE "None",
                                   !.old = IF h \in DOMAIN fs THEN << fs[h] >> ELSE << >>,
                                   !.new = << st >>,
                                   !.ret = IF hit THEN fs[h].ids ELSE << >>]
  /\ UNCHANGED << diskVars, repo, pc, cont, sessVars, txn_active, config, manifest_id,
                  timestamp, chunks, gPre, gPost, gIdx, gClean, gRef, gLog, gDied, gStart >>
  /\ UNCHANGED extVars

\* memorize_file(path_hash, st, ids).  In ev, old is _newest_mtime before the
\* call and new is st and ids.
MemorizeFile(h, st, ids) ==
  /\ pc = Idle
  /\ gNull' = FALSE
  /\ IF ~do_files
     THEN /\ ev' = [NoEv EXCEPT !.op = "memorize", !.id = h, !.res = "skip"]
          /\ UNCHANGED << files, newest_mtime, gSeen >>
     ELSE IF ~files_loaded
     THEN /\ ev' = [NoEv EXCEPT !.op = "memorize", !.id = h, !.res = "TypeError",
                                !.new = << st, ids >>]
          /\ UNCHANGED << files, newest_mtime, gSeen >>
     ELSE /\ files' = Put(files, h, EntryFor(st, ids))
          /\ newest_mtime' = Max(newest_mtime, st.st_mtime_ns)
          /\ gSeen' = gSeen \cup { h }
          /\ ev' = [NoEv EXCEPT !.op = "memorize", !.id = h, !.res = "ok",
                                !.old = << newest_mtime >>, !.new = << st, ids >>]
  /\ UNCHANGED << diskVars, repo, pc, cont, sessVars, txn_active, config, manifest_id,
                  timestamp, chunks, files_loaded, gPre, gPost, gIdx, gClean, gRef,
                  gLog, gDied, gStart >>
  /\ UNCHANGED extVars

\* close(): the lock is released and the process exits.
Close ==
  /\ pc = Idle
  /\ EndProcess([NoEv EXCEPT !.op = "close"])
  /\ UNCHANGED << diskVars, repo >>
  /\ gStart' = EmptyMap
  /\ gSeen' = {}
  /\ UNCHANGED extVars

\* ---------------------------------------------------------- UpgradableLock
Other(p) == CHOOSE q \in Procs : q # p

\* fcntl.lockf: a shared lock conflicts with an exclusive lock of another
\* process, an exclusive lock with any lock of another process.
Compatible(kind, p) ==
  IF kind = "sh" THEN lk[Other(p)].held # "ex" ELSE lk[Other(p)].held = "none"

\* UpgradableLock(path, exclusive): the file is opened 'r+', or 'r' when that
\* fails; lockf without LOCK_NB waits for a conflicting lock to go away, and
\* LOCK_EX on a descriptor not open for writing fails (EBADF).
LockNew(p, exclusive, writable) ==
  /\ lk[p].fd = "none"
  /\ LET kind == IF exclusive THEN "ex" ELSE "sh"
         fd == IF writable THEN "rw" ELSE "ro"
         e == [NoLockEv EXCEPT !.p = p, !.op = "init",
                               !.contended = lk[Other(p)].held # "none"]
     IN IF exclusive /\ ~writable
        THEN /\ lk' = lk
             /\ lev' = [e EXCEPT !.res = "OSError"]
        ELSE IF Compatible(kind, p)
        THEN /\ lk' = [lk EXCEPT ![p] = [NoLock EXCEPT !.fd = fd, !.held = kind,
                                                       !.is_exclusive = exclusive]]
             /\ lev' = [e EXCEPT !.res = "ok"]
        ELSE /\ lk' = [lk EXCEPT ![p] = [NoLock EXCEPT !.fd = fd, !.wait = kind,
                                                       !.call = "init"]]
             /\ lev' = [e EXCEPT !.res = "blocked"]
  /\ UNCHANGED << sess, cacheVars, unpackVars, fuseVars >>

\* A lockf that waited returns once no conflicting lock is left.
LockGrant(p) ==
  /\ lk[p].wait # "none"
  /\ Compatible(lk[p].wait, p)
  /\ lk' = [lk EXCEPT ![p].held = lk[p].wait, ![p].wait = "none", ![p].call = "none",
                      ![p].is_exclusive = (lk[p].wait = "ex")]
  /\ lev' = [NoLockEv EXCEPT !.p = p, !.op = lk[p].call, !.res = "ok",
                             !.contended = TRUE, !.was = lk[p].is_exclusive]
  /\ UNCHANGED << sess, cacheVars, unpackVars, fuseVars >>

\* upgrade(): lockf(LOCK_EX); an OSError (EBADF on a read-only descriptor,
\* EDEADLK when the other process waits for this one) is LockUpgradeFailed.
LockUpgrade(p) ==
  /\ lk[p].fd \in { "rw", "ro" }
  /\ lk[p].wait = "none"
  /\ LET e == [NoLockEv EXCEPT !.p = p, !.op = "upgrade",
                               !.contended = lk[Other(p)].held # "none",
                               !.was = lk[p].is_exclusive]
     IN IF lk[p].fd = "ro"
        THEN /\ lk' = lk
             /\ lev' = [e EXCEPT !.res = "LockUpgradeFailed"]
        ELSE IF Compatible("ex", p)
        THEN /\ lk' = [lk EXCEPT ![p].held = "ex", ![p].is_exclusive = TRUE]
             /\ lev' = [e EXCEPT !.res = "ok"]
        ELSE IF lk[Other(p)].wait # "none"
        THEN /\ lk' = lk
             /\ lev' = [e EXCEPT !.res = "LockUpgradeFailed"]
        ELSE /\ lk' = [lk EXCEPT ![p].wait = "ex", ![p].call = "upgrade"]
             /\ lev' = [e EXCEPT !.res = "blocked"]
  /\ UNCHANGED << sess, cacheVars, unpackVars, fuseVars >>

\* release(): lockf(LOCK_UN), then self.fd.close(); lockf on a closed file
\* raises ValueError.
LockRelease(p) ==
  /\ lk[p].fd # "none"
  /\ lk[p].wait = "none"
  /\ LET e == [NoLockEv EXCEPT !.p = p, !.op = "release",
                               !.contended = lk[Other(p)].held # "none",
                               !.was = lk[p].is_exclusive]
     IN IF lk[p].fd = "closed"
        THEN /\ lk' = lk
             /\ lev' = [e EXCEPT !.res = "ValueError"]
        ELSE /\ lk' = [lk EXCEPT ![p].held = "none", ![p].fd = "closed"]
             /\ lev' = [e EXCEPT !.res = "ok"]
  /\ UNCHANGED << sess, cacheVars, unpackVars, fuseVars >>

\* ------------------------------------------- sessions on one cache directory
\* fcntl.lockf takes a POSIX record lock: it belongs to the process, and
\* closing any descriptor the process has for the file releases it.  l is
\* the lock of a process that opened config and closed that descriptor.
ClosedConfig(l) == [l EXCEPT !.held = "none"]
\* The session of process p is between the return of its lockf and close().
Live(p) == sess.at[p] \in { "rollback", "read", "idle" }
\* txn.active left by a session that has ended.
Stale == 3

\* open(): self.lock = UpgradableLock(config, exclusive=True); lockf waits
\* while the other process holds a lock on config.
SessOpen(p) ==
  /\ sess.at[p] = "out"
  /\ IF Compatible("ex", p)
     THEN /\ lk' = [lk EXCEPT ![p] = [NoLock EXCEPT !.fd = "rw", !.held = "ex", !.is_exclusive = TRUE]]
          /\ sess' = [sess EXCEPT !.at[p] = "rollback",
                                  !.ev = [NoSessEv EXCEPT !.p = p, !.op = "lock", !.res = "ok"]]
     ELSE /\ lk' = [lk EXCEPT ![p] = [NoLock EXCEPT !.fd = "rw", !.wait = "ex", !.call = "init"]]
          /\ sess' = [sess EXCEPT !.at[p] = "lock",
                                  !.ev = [NoSessEv EXCEPT !.p = p, !.op = "lock", !.res = "blocked"]]
  /\ UNCHANGED << lev, cacheVars, unpackVars, fuseVars >>

\* The lockf of open() returns.
SessGranted(p) ==
  /\ sess.at[p] = "lock"
  /\ Compatible("ex", p)
  /\ lk' = [lk EXCEPT ![p].held = "ex", ![p].wait = "none", ![p].call = "none",
                      ![p].is_exclusive = TRUE]
  /\ sess' = [sess EXCEPT !.at[p] = "rollback",
                          !.ev = [NoSessEv EXCEPT !.p = p, !.op = "lock", !.res = "ok"]]
  /\ UNCHANGED << lev, cacheVars, unpackVars, fuseVars >>

\* open(): self.rollback().  With a txn.active its files are copied over
\* config, chunks and files (shutil.copy opens config and closes it) and it
\* is renamed and removed.
SessRollback(p) ==
  /\ sess.at[p] = "rollback"
  /\ lk' = IF sess.active # 0 THEN [lk EXCEPT ![p] = ClosedConfig(@)] ELSE lk
  /\ sess' = [sess EXCEPT !.at[p] = "read", !.txn[p] = FALSE, !.active = 0,
                          !.ev = [NoSessEv EXCEPT !.p = p, !.op = "rollback", !.res = "ok",
                                                 !.found = sess.active,
                                                 !.live = Live(Other(p))]]
  /\ UNCHANGED << lev, cacheVars, unpackVars, fuseVars >>

\* open(): self.config.read(config), which opens the file and closes it,
\* and ChunkIndex.read(chunks).
SessRead(p) ==
  /\ sess.at[p] = "read"
  /\ lk' = [lk EXCEPT ![p] = ClosedConfig(@)]
  /\ sess' = [sess EXCEPT !.at[p] = "idle",
                          !.ev = [NoSessEv EXCEPT !.p = p, !.op = "read", !.res = "ok",
                                                 !.found = sess.active,
                                                 !.live = Live(Other(p))]]
  /\ UNCHANGED << lev, cacheVars, unpackVars, fuseVars >>

\* begin_txn(): txn.tmp is made, config, chunks and files are copied to it
\* and it is renamed to txn.active, which fails when that exists with files.
SessBeginTxn(p) ==
  /\ sess.at[p] = "idle"
  /\ ~sess.txn[p]
  /\ lk' = [lk EXCEPT ![p] = ClosedConfig(@)]
  /\ sess' = IF sess.active = 0
             THEN [sess EXCEPT !.txn[p] = TRUE, !.active = p,
                               !.ev = [NoSessEv EXCEPT !.p = p, !.op = "begin", !.res = "ok",
                                                      !.live = Live(Other(p))]]
             ELSE [sess EXCEPT !.ev = [NoSessEv EXCEPT !.p = p, !.op = "begin", !.res = "OSError",
                                                      !.found = sess.active,
                                                      !.live = Live(Other(p))]]
  /\ UNCHANGED << lev, cacheVars, unpackVars, fuseVars >>

\* commit(): files, config and chunks are written, then txn.active is
\* renamed to txn.tmp and removed; the rename fails when there is none.
SessCommit(p) ==
  /\ sess.at[p] = "idle"
  /\ sess.txn[p]
  /\ lk' = [lk EXCEPT ![p] = ClosedConfig(@)]
  /\ sess' = IF sess.active # 0
             THEN [sess EXCEPT !.txn[p] = FALSE, !.active = 0,
                               !.ev = [NoSessEv EXCEPT !.p = p, !.op = "commit", !.res = "ok",
                                                      !.found = sess.active,
                                                      !.live = Live(Other(p))]]
             ELSE [sess EXCEPT !.ev = [NoSessEv EXCEPT !.p = p, !.op = "commit", !.res = "OSError",
                                                      !.live = Live(Other(p))]]
  /\ UNCHANGED << lev, cacheVars, unpackVars, fuseVars >>

\* close(): self.lock.release().  The object is gone; a txn.active it left
\* is that of an ended session.
SessClose(p) ==
  /\ sess.at[p] = "idle"
  /\ lk' = [lk EXCEPT ![p] = NoLock]
  /\ sess' = [sess EXCEPT !.at[p] = "out", !.txn[p] = FALSE,
                          !.active = IF @ = p THEN Stale ELSE @,
                          !.ev = [NoSessEv EXCEPT !.p = p, !.op = "close", !.res = "ok"]]
  /\ UNCHANGED << lev, cacheVars, unpackVars, fuseVars >>

\* ---------------------------------------------------------------- unpacker
\* msgpack: a byte below 128 is an integer; 128 + n opens a map of n pairs;
\* 160 + n opens a string of n bytes; 193 is never used.
FixMap == 128
FixStr == 160
\* 'p', the key of an item; 'f' and 'b', its values; 'g', 'a' and two bytes
\* that are not integers, the bytes of garbage.
PathKey == 112
ItemValues == { 102, 98 }
GarbageBytes == { 103, 97, 161, 193 }
Runs == UNION { [1..k -> GarbageBytes] : k \in 0..MaxRun }

\* msgpack.packb({key: value}) of an item, and what it unpacks to.
Pack(v) == << FixMap + 1, FixStr + 1, PathKey, FixStr + 1, v >>
Item(v) == << "map", << << << "str", << PathKey >> >>, << "str", << v >> >> >> >> >>

\* One object decoded at position i of buffer b: st is "ok" (val, and nxt
\* the position after it), "more" (the buffer ends inside it) or "err".
RECURSIVE DecodeAt(_, _)
RECURSIVE DecodePairs(_, _, _, _)
DecodeAt(b, i) ==
  IF i > Len(b) THEN [st |-> "more", val |-> << >>, nxt |-> i]
  ELSE IF b[i] < FixMap THEN [st |-> "ok", val |-> << "int", b[i] >>, nxt |-> i + 1]
  ELSE IF b[i] < FixMap + 16 THEN DecodePairs(b, i + 1, b[i] - FixMap, << >>)
  ELSE IF b[i] >= FixStr /\ b[i] < FixStr + 32
  THEN LET n == b[i] - FixStr
       IN IF i + n > Len(b) THEN [st |-> "more", val |-> << >>, nxt |-> i]
          ELSE [st |-> "ok", val |-> << "str", SubSeq(b, i + 1, i + n) >>, nxt |-> i + n + 1]
  ELSE [st |-> "err", val |-> << >>, nxt |-> i]
\* The n pairs of a map; a key that is itself a map cannot be a dict key.
DecodePairs(b, i, n, acc) ==
  IF n = 0 THEN [st |-> "ok", val |-> << "map", acc >>, nxt |-> i]
  ELSE LET k == DecodeAt(b, i)
       IN IF k.st # "ok" THEN k
          ELSE IF k.val[1] = "map" THEN [st |-> "err", val |-> << >>, nxt |-> i]
          ELSE LET v == DecodeAt(b, k.nxt)
               IN IF v.st # "ok" THEN v
                  ELSE DecodePairs(b, v.nxt, n - 1, Append(acc, << k.val, v.val >>))

\* feed(data): the unpacker's buffer afterwards.
FedAlone(buf, data) == data
Fed(buf, data) == buf \o data

\* The input: the items packed, each followed by its garbage run ...
RECURSIVE Flat(_)
Flat(segs) ==
  IF segs = << >> THEN << >>
  ELSE Pack(Head(segs).v) \o Head(segs).g \o Flat(Tail(segs))
\* ... cut into chunks of k bytes.
RECURSIVE Split(_, _)
Split(b, k) ==
  IF Len(b) <= k THEN (IF b = << >> THEN << >> ELSE << b >>)
  ELSE << SubSeq(b, 1, k) >> \o Split(SubSeq(b, k + 1, Len(b)), k)

\* An unpacker and an input of 1..MaxItems items with a garbage run, which
\* can be empty, after each item but the last.
UnpackInit ==
  /\ CacheInit
  /\ LockInit
  /\ FuseIdle
  /\ \E n \in 1..MaxItems :
       \E vs \in [1..n -> ItemValues], gs \in [1..(n - 1) -> Runs] :
         /\ usrc = [i \in 1..n |-> [v |-> vs[i], g |-> IF i < n THEN gs[i] ELSE << >>]]
         /\ uleft = Split(Flat(usrc), ChunkLen)
  /\ ubuf = << >>
  /\ uout = << >>
  /\ umode = "synced"
  /\ ucut = NoCut

\* validator(item): a map whose path is one of the known values.
Validator(val) ==
  /\ val[1] = "map"
  /\ \E i \in 1..Len(val[2]) :
       /\ val[2][i][1] = << "str", << PathKey >> >>
       /\ \E v \in ItemValues : val[2][i][2] = << "str", << v >> >>

\* The type tag that starts a map with a known small field count.
MapTag(byte) == byte = FixMap + 1

\* What the unpacker can do with its buffer: "more" when it needs input.
\* Synced, it takes what the decoder gives, and a decoder failure sends it
\* to resync; in resync it tries a decode where a map can start, accepts
\* what the validator approves, and otherwise skips the byte.
Step(mode, buf) ==
  LET d == DecodeAt(buf, 1)
      skip == [st |-> "skip", val |-> << >>, nxt |-> 2, mode |-> "resync"]
  IN IF buf = << >> THEN [st |-> "more", val |-> << >>, nxt |-> 1, mode |-> mode]
     ELSE IF mode = "synced"
     THEN IF d.st = "err" THEN [st |-> "fail", val |-> << >>, nxt |-> 1, mode |-> "resync"]
          ELSE [st |-> d.st, val |-> d.val, nxt |-> d.nxt, mode |-> "synced"]
     ELSE IF ~MapTag(buf[1]) THEN skip
     ELSE IF d.st = "more" THEN [st |-> "more", val |-> << >>, nxt |-> 1, mode |-> mode]
     ELSE IF d.st = "ok" /\ Validator(d.val)
     THEN [st |-> "ok", val |-> d.val, nxt |-> d.nxt, mode |-> "synced"]
     ELSE skip

\* if should_sync: resync() is due before the next chunk is fed.
ResyncDue == ucut.st = "pending" /\ Len(uleft) = ucut.left

\* for data in chunks: unpacker.feed(data), once the items of the chunk
\* before have been taken.
UFeed ==
  /\ uleft # << >>
  /\ ~ResyncDue
  /\ Step(umode, ubuf).st = "more"
  /\ ubuf' = Fed(ubuf, Head(uleft))
  /\ uleft' = Tail(uleft)
  /\ UNCHANGED << uout, umode, ucut, usrc, cacheVars, lockVars, fuseVars >>

\* for item in unpacker: result.append(item), one step of the iterator.
UNext ==
  /\ Step(umode, ubuf).st # "more"
  /\ LET d == Step(umode, ubuf)
     IN /\ uout' = IF d.st = "ok" THEN Append(uout, d.val) ELSE uout
        /\ ubuf' = SubSeq(ubuf, d.nxt, Len(ubuf))
        /\ umode' = d.mode
  /\ UNCHANGED << uleft, ucut, usrc, cacheVars, lockVars, fuseVars >>

\* resync(): what is left in the buffer afterwards.
ResyncedKeeps(buf) == buf
Resynced(buf) == << >>

\* if should_sync: unpacker.resync(), between two groups of chunks.
UResync ==
  /\ ResyncDue
  /\ Step(umode, ubuf).st = "more"
  /\ ubuf' = Resynced(ubuf)
  /\ umode' = "resync"
  /\ ucut' = [ucut EXCEPT !.st = "done"]
  /\ UNCHANGED << uleft, uout, usrc, cacheVars, lockVars, fuseVars >>

\* The chunks joined.
RECURSIVE Join(_)
Join(parts) == IF parts = << >> THEN << >> ELSE Head(parts) \o Join(Tail(parts))

\* Garbage fed after a resync(): the runs, and two that start as a map does.
SyncRuns == Runs \cup { << FixMap + 1 >>, << FixMap + 1, FixStr + 1 >> }

\* An unpacker and an input of 1..MaxItems + 1 items in parts: the first k
\* parts are fed, then resync() is called, then garbage and the parts
\* after the d missing ones are fed.
ResyncInit ==
  /\ CacheInit
  /\ LockInit
  /\ FuseIdle
  /\ \E n \in 1..(MaxItems + 1) :
       \E vs \in [1..n -> ItemValues] :
         LET src == [i \in 1..n |-> [v |-> vs[i], g |-> << >>]]
             parts == Split(Flat(src), ChunkLen)
         IN \E k \in 0..Len(parts), d \in { 0, 1 }, g \in SyncRuns :
              LET rest == SubSeq(parts, k + d + 1, Len(parts))
              IN /\ k + d <= Len(parts)
                 /\ usrc = src
                 /\ uleft = SubSeq(parts, 1, k) \o Split(g, ChunkLen) \o rest
                 /\ ucut = [st |-> "pending", left |-> Len(Split(g, ChunkLen)) + Len(rest),
                            pre |-> Join(SubSeq(parts, 1, k)), post |-> g \o Join(rest)]
  /\ ubuf = << >>
  /\ uout = << >>
  /\ umode = "synced"

\* ------------------------------------------------- the archives sync reads
\* (id, size, csize) of the chunks of file items; c1 is recorded with two
\* different sizes.
ChunkRefs == { << "c1", 1, 2 >>, << "c1", 2, 3 >>, << "c2", 1, 2 >> }
ChunkLists == UNION { [1..n -> ChunkRefs] : n \in 0..MaxChunks }
\* An archive: the id of its metadata blob with the lengths of its plaintext
\* and ciphertext, and its items list; each items chunk with its lengths and
\* the items unpacked once it is fed, an item being its chunks list (<< >>
\* for an item without chunks).
ArchiveOne(cs) ==
  [id |-> "r1", len |-> 1, clen |-> 2,
   items |-> << [key |-> "k1", len |-> 2, clen |-> 3, found |-> << << >>, cs >>] >>]
\* An archive that shares its first items chunk with ArchiveOne(cs).
ArchiveTwo(cs, ds) ==
  [id |-> "r2", len |-> 1, clen |-> 2,
   items |-> << [key |-> "k1", len |-> 2, clen |-> 3, found |-> << << >>, cs >>],
                [key |-> "k2", len |-> 1, clen |-> 2, found |-> << ds >>] >>]
\* manifest.archives, in the order sync iterates over it.
SyncArchives ==
  { << >> } \cup { << ArchiveOne(cs) >> : cs \in ChunkLists }
  \cup { << ArchiveOne(cs), ArchiveTwo(cs, ds) >> : cs \in ChunkLists, ds \in ChunkLists }
  \cup { << ArchiveTwo(cs, ds), ArchiveOne(cs) >> : cs \in ChunkLists, ds \in ChunkLists }
\* The indexes a session can have loaded before sync.
StaleIndexes ==
  { EmptyMap, ("z" :> << 1, 1, 2 >>), ("z" :> << 1, 1, 2 >>) @@ ("c2" :> << 3, 2, 3 >>) }

\* for key, chunk in zip(archive[b'items'], ...): add(key, ...); then for
\* every item unpacked add(chunk_id, size, csize) for its chunks.
RECURSIVE ItemsRefs(_)
ItemsRefs(items) ==
  IF items = << >> THEN << >>
  ELSE << << Head(items).key, Head(items).len, Head(items).clen >> >>
       \o Join(Head(items).found) \o ItemsRefs(Tail(items))
\* for name, info in self.manifest.archives.items(): add(archive_id, ...); ...
RECURSIVE ArchivesRefs(_)
ArchivesRefs(as) ==
  IF as = << >> THEN << >>
  ELSE << << Head(as).id, Head(as).len, Head(as).clen >> >>
       \o ItemsRefs(Head(as).items) \o ArchivesRefs(Tail(as))

\* A session in sync(), after its begin_txn, with a manifest of those
\* archives and a loaded index.
SyncInit ==
  /\ \E as \in SyncArchives, old \in StaleIndexes :
       /\ manifest = [id |-> 2, timestamp |-> 2, refs |-> ArchivesRefs(as), archives |-> as]
       /\ chunks = old
       /\ disk = [CreatedDisk EXCEPT !.chunks = ChunkIndexWrite(old)]
       /\ active = DirOf([CreatedDisk EXCEPT !.chunks = ChunkIndexWrite(old)])
       /\ gPre = [CreatedDisk EXCEPT !.chunks = ChunkIndexWrite(old)]
       /\ gPost = [CreatedDisk EXCEPT !.chunks = ChunkIndexWrite(old)]
       /\ gRef = RefsOf(old)
  /\ torn = {}
  /\ tmp = NoDir
  /\ repo = {}
  /\ pc = << "sync", 0 >>
  /\ cont = [NoCont EXCEPT !.op = "sync"]
  /\ do_sync = FALSE
  /\ do_files = FALSE
  /\ txn_active = TRUE
  /\ config = CreatedDisk.config
  /\ manifest_id = 0
  /\ timestamp = 0
  /\ files_loaded = FALSE
  /\ files = EmptyMap
  /\ newest_mtime = 0
  /\ ev = [NoEv EXCEPT !.op = "open", !.res = "sync"]
  /\ gIdx = EmptyMap
  /\ gClean = FALSE
  /\ gNull = FALSE
  /\ gLog = << >>
  /\ gDied = FALSE
  /\ gStart = EmptyMap
  /\ gSeen = {}
  /\ LockInit
  /\ UnpackIdle
  /\ FuseIdle

\* ------------------------------------------------------------- materializer
\* ItemCache.offset: handles of the item cache start here.
BaseOffset == 1000000
\* length=None of _load_items_subset: no budget.
NoLength == 0 - 1

\* The archives of the mounted repository that have items; every other
\* archive of the manifest is empty and is called "other".
ArchiveNames == { "A", "B" }
\* Names in the order of bytes.
NameOrder == << "", "A", "B", "d", "e", "f", "g", "h", "j", "other", "z" >>
Rank(seg) == CHOOSE i \in 1..Len(NameOrder) : NameOrder[i] = seg
Names == { NameOrder[i] : i \in 2..Len(NameOrder) } \ { "other" }

\* The ids of file chunks, with the plaintext the repository has for them.
DataOf(id) ==
  CASE id = "c1" -> << 11, 12 >>
    [] id = "c2" -> << 21 >>
    [] id = "c3" -> << 31, 32 >>
    [] OTHER -> << 41 >>

\* self.default_dir, and items as the archive packs them: an item without
\* source has source << >>, one without chunks has chunks << >>; nlink 0 is
\* an item without nlink.
DefaultDir == [mode |-> "dir", source |-> << >>, chunks |-> << >>, nlink |-> 0]
NoItem == [mode |-> "none", source |-> << >>, chunks |-> << >>, nlink |-> 0]
Dir(path) == [path |-> path, mode |-> "dir", source |-> << >>, chunks |-> << >>, nlink |-> 0]
Reg(path, cs) == [path |-> path, mode |-> "reg", source |-> << >>, chunks |-> cs, nlink |-> 0]
Link(path, src) == [path |-> path, mode |-> "reg", source |-> src, chunks |-> << >>, nlink |-> 0]
\* del item[b'path']
Stored(it) == [mode |-> it.mode, source |-> it.source, chunks |-> it.chunks, nlink |-> it.nlink]

\* The item stream of an archive: the items in breadth-first order, each
\* with the number of bytes it is packed in.
StreamOf(a) ==
  CASE a = "A" ->
         << [item |-> Dir(<< "d" >>), len |-> 1],
            [item |-> Reg(<< "d", "f" >>, << << "c1", 2 >>, << "c2", 1 >>, << "c3", 2 >> >>), len |-> 2],
            [item |-> Link(<< "d", "g" >>, << "d", "f" >>), len |-> 1],
            [item |-> Link(<< "d", "h" >>, << "d", "f" >>), len |-> 1] >>
    [] a = "B" ->
         << [item |-> Reg(<< "f" >>, << << "c1", 2 >> >>), len |-> 2],
            [item |-> Reg(<< "e", "j" >>, << << "c4", 1 >> >>), len |-> 1] >>
    [] a = "T" ->
         << [item |-> Dir(<< "d" >>), len |-> 1],
            [item |-> Dir(<< "e" >>), len |-> 1],
            [item |-> Reg(<< "d", "f" >>, << << "c1", 2 >> >>), len |-> 1],
            [item |-> Reg(<< "e", "j" >>, << << "c4", 1 >> >>), len |-> 1] >>
    [] a = "S" ->
         << [item |-> Dir(<< "d" >>), len |-> 1],
            [item |-> Reg(<< "d", "f" >>, << << "c1", 2 >> >>), len |-> 1] >>
    [] OTHER -> << >>
\* The bytes of the stream: byte part of of item it.
RECURSIVE StreamBytes(_, _)
StreamBytes(a, i) ==
  IF i > Len(StreamOf(a)) THEN << >>
  ELSE [p \in 1..StreamOf(a)[i].len |-> [it |-> i, part |-> p, of |-> StreamOf(a)[i].len]]
       \o StreamBytes(a, i + 1)
\* archive.metadata: the version, and items, the ids of the chunks the
\* stream is cut in, with the number of bytes in each.
MetaOf(a) ==
  CASE a = "A" -> [version |-> 2, items |-> << "k1", "k2", "k3" >>, cut |-> << 2, 2, 1 >>]
    [] a = "B" -> [version |-> 1, items |-> << "k4", "k5" >>, cut |-> << 1, 2 >>]
    [] a = "T" -> [version |-> 2, items |-> << "t1", "t2", "t3" >>, cut |-> << 2, 1, 1 >>]
    [] a = "S" -> [version |-> 2, items |-> << "s1" >>, cut |-> << 2 >>]
    [] OTHER -> [version |-> 1, items |-> << >>, cut |-> << >>]
RECURSIVE CutBefore(_, _)
CutBefore(a, i) == IF i <= 1 THEN 0 ELSE MetaOf(a).cut[i - 1] + CutBefore(a, i - 1)
\* The plaintext of chunk i of items.
PlainOf(a, i) == SubSeq(StreamBytes(a, 1), CutBefore(a, i) + 1, CutBefore(a, i + 1))

\* archive.metadata_index: the windows (index, skipbytes, length), in the
\* order of the stream, with the items of the stream each one holds.
WindowsOf(a) ==
  CASE a = "A" ->
         << [index |-> 0, skipbytes |-> 0, length |-> 3, holds |-> { 1, 2 }],
            [index |-> 1, skipbytes |-> 1, length |-> 3, holds |-> { 3, 4 }] >>
    [] a = "T" ->
         << [index |-> 0, skipbytes |-> 0, length |-> 2, holds |-> { 1, 2 }],
            [index |-> 1, skipbytes |-> 0, length |-> 1, holds |-> { 3 }],
            [index |-> 2, skipbytes |-> 0, length |-> 1, holds |-> { 4 }] >>
    [] a = "S" ->
         << [index |-> 0, skipbytes |-> 0, length |-> 1, holds |-> { 1 }],
            [index |-> 0, skipbytes |-> 1, length |-> 1, holds |-> { 2 }] >>
    [] OTHER -> << >>
\* metadata_index.lookup(full_segments)[1]: a window that holds the item of
\* that path; for a path that is in no window, any window.
IndexLookup(a, path) ==
  LET ws == { WindowsOf(a)[i] : i \in 1..Len(WindowsOf(a)) }
      hit == { w \in ws : \E i \in w.holds : StreamOf(a)[i].item.path = path }
  IN IF hit # {} THEN hit ELSE ws
\* metadata_index.lookup_many(full_segments): the windows in order.
IndexLookupMany(a, path) == WindowsOf(a)

\* BFSPath(p) > BFSPath(q): deeper, or as deep and greater segment by segment.
RECURSIVE LexGreater(_, _)
LexGreater(p, q) ==
  IF p = << >> \/ q = << >> THEN FALSE
  ELSE IF Rank(Head(p)) # Rank(Head(q)) THEN Rank(Head(p)) > Rank(Head(q))
  ELSE LexGreater(Tail(p), Tail(q))
BFSGreater(p, q) == Len(p) > Len(q) \/ (Len(p) = Len(q) /\ LexGreater(p, q))

\* AtticOperations.__init__: a mount of the repository (archive = "") whose
\* manifest lists narch archives, those with items first in the order of
\* order, or a mount of one archive.  items, parent and itemnames hold what
\* is not the default: every allocated inode is in items with default_dir,
\* and an archive placeholder has parent 1 and its archive's name.
Mounted(archive, order, narch) ==
  [st |-> "mounted",
   archive |-> archive,
   order |-> order,
   narch |-> IF archive = "" THEN narch ELSE 0,
   inode_count |-> IF archive = "" THEN 1 + narch ELSE 1,
   items |-> EmptyMap,
   parent |-> (1 :> 1),
   itemnames |-> EmptyMap,
   contents |-> IF archive = "" THEN (1 :> [n \in { order[i] : i \in 1..Len(order) } |->
                                             1 + CHOOSE i \in 1..Len(order) : order[i] = n])
                ELSE EmptyMap,
   processed |-> EmptyMap,
   cache |-> << >>,
   cache_end |-> 0,
   fetched |-> << >>,
   err |-> ""]

\* inode in self.archives, and the name of that archive.
IsArchive(m, inode) ==
  IF m.archive = "" THEN inode >= 2 /\ inode <= m.narch + 1 ELSE inode = 1
ArchiveAt(m, inode) ==
  IF m.archive # "" THEN m.archive
  ELSE IF inode >= 2 /\ inode - 1 <= Len(m.order) THEN m.order[inode - 1] ELSE "other"
\* self.processed_items_subsets[inode]: set by __init__ for the placeholders.
HasProcessed(m, inode) == m.archive = "" /\ IsArchive(m, inode)
ProcessedOf(m, inode) ==
  IF inode \in DOMAIN m.processed THEN m.processed[inode] ELSE EmptyMap

\* inode in self.items, self.items[inode]
InItems(m, inode) == inode \in DOMAIN m.items \/ (inode >= 1 /\ inode <= m.inode_count)
ItemsAt(m, inode) == IF inode \in DOMAIN m.items THEN m.items[inode] ELSE DefaultDir
\* inode in self.parent, self.parent[inode]
InParent(m, inode) == inode \in DOMAIN m.parent \/ IsArchive(m, inode)
ParentAt(m, inode) == IF inode \in DOMAIN m.parent THEN m.parent[inode] ELSE 1
\* inode in self.itemnames, self.itemnames[inode]
InItemnames(m, inode) == inode \in DOMAIN m.itemnames \/ (m.archive = "" /\ IsArchive(m, inode))
ItemnameAt(m, inode) ==
  IF inode \in DOMAIN m.itemnames THEN m.itemnames[inode] ELSE ArchiveAt(m, inode)
\* self.contents[inode], a defaultdict
ContentsAt(m, inode) == IF inode \in DOMAIN m.contents THEN m.contents[inode] ELSE EmptyMap

\* allocate_inode(), with self.items[inode] = self.default_dir
AllocateInode(m) ==
  [m EXCEPT !.inode_count = @ + 1, !.items = Remove(@, m.inode_count + 1)]

\* ItemCache.add(item): the handle it returns, and the cache afterwards; an
\* item is packed in one byte and one more for each of its chunks.
PackLen(it) == 1 + Len(it.chunks)
Handle(m) == m.cache_end + BaseOffset
CacheAdd(m, it) ==
  [m EXCEPT !.cache = Append(@, [pos |-> m.cache_end, item |-> it]),
            !.cache_end = @ + PackLen(it)]
\* ItemCache.get(inode): the item packed at inode - offset, if one starts there.
CacheHas(m, inode) == \E i \in 1..Len(m.cache) : m.cache[i].pos = inode - BaseOffset
CacheGet(m, inode) ==
  m.cache[CHOOSE i \in 1..Len(m.cache) : m.cache[i].pos = inode - BaseOffset].item

\* get_item(inode)
GetItem(m, inode) ==
  IF InItems(m, inode) THEN [ok |-> TRUE, item |-> ItemsAt(m, inode)]
  ELSE IF CacheHas(m, inode) THEN [ok |-> TRUE, item |-> CacheGet(m, inode)]
  ELSE [ok |-> FALSE, item |-> NoItem]

\* _find_inode(path, prefix)
RECURSIVE FindInode(_, _, _)
FindInode(m, segs, inode) ==
  IF segs = << >> THEN [ok |-> TRUE, inode |-> inode]
  ELSE IF Head(segs) \notin DOMAIN ContentsAt(m, inode) THEN [ok |-> FALSE, inode |-> 0]
  ELSE FindInode(m, Tail(segs), ContentsAt(m, inode)[Head(segs)])

\* self.parent[inode] = parent; if segment: self.contents[parent][segment] =
\* inode; self.itemnames[inode] = segment
Bind(m, inode, par, seg) ==
  IF seg = "" THEN [m EXCEPT !.parent = Put(@, inode, par)]
  ELSE [m EXCEPT !.parent = Put(@, inode, par),
                 !.contents = Put(@, par, Put(ContentsAt(m, par), seg, inode)),
                 !.itemnames = Put(@, inode, seg)]

\* item[b'nlink'] = item.get(b'nlink', 1) + 1
OneMoreLink(it) == [it EXCEPT !.nlink = (IF @ = 0 THEN 1 ELSE @) + 1]

\* The leaf segment of an item: a hard link goes to the inode of its
\* source, every other item gets a handle of the item cache.
AttachLeaf(m, seg, par, it, prefix) ==
  IF it.source # << >> /\ it.mode = "reg"
  THEN LET found == FindInode(m, prefix \o it.source, 1)
       IN IF ~found.ok THEN [m EXCEPT !.err = "KeyError"]
          ELSE IF ~CacheHas(m, found.inode) THEN [m EXCEPT !.err = "CacheError"]
          ELSE Bind([m EXCEPT !.items = Put(@, found.inode, OneMoreLink(CacheGet(m, found.inode)))],
                    found.inode, par, seg)
  ELSE Bind(CacheAdd(m, Stored(it)), Handle(m), par, seg)

\* for i, segment in enumerate(segments, 1): ...
RECURSIVE WalkSegments(_, _, _, _, _, _)
WalkSegments(m, segs, i, par, it, prefix) ==
  IF m.err # "" \/ i > Len(segs) THEN m
  ELSE IF i = Len(segs) THEN AttachLeaf(m, segs[i], par, it, prefix)
  ELSE IF segs[i] \in DOMAIN ContentsAt(m, par)
  THEN WalkSegments(m, segs, i + 1, ContentsAt(m, par)[segs[i]], it, prefix)
  ELSE LET a == AllocateInode(m)
       IN WalkSegments(Bind(a, a.inode_count, par, segs[i]), segs, i + 1, a.inode_count, it, prefix)

\* msgpack.Unpacker: the next item of the buffer, when all its bytes are there.
UnpackOne(buf) ==
  IF buf = << >> THEN [st |-> "more", it |-> 0, rest |-> buf]
  ELSE IF Head(buf).part # 1 THEN [st |-> "err", it |-> 0, rest |-> buf]
  ELSE IF Len(buf) < Head(buf).of THEN [st |-> "more", it |-> 0, rest |-> buf]
  ELSE [st |-> "ok", it |-> Head(buf).it, rest |-> SubSeq(buf, Head(buf).of + 1, Len(buf))]

\* for item in unpacker: ...
RECURSIVE Drain(_, _, _, _, _)
Drain(m, a, buf, final, prefix) ==
  LET u == UnpackOne(buf)
  IN IF m.err # "" \/ u.st = "more" THEN [m |-> m, buf |-> buf, final |-> final]
     ELSE IF u.st = "err" THEN [m |-> [m EXCEPT !.err = "UnpackError"], buf |-> buf, final |-> final]
     ELSE LET it == StreamOf(a)[u.it].item
              segments == prefix \o it.path
          IN Drain(WalkSegments(m, segments, 1, 1, it, prefix), a, u.rest, segments, prefix)

\* The budget left after a chunk of datalength bytes.
BudgetAfterNever(length, datalength) == length
BudgetAfter(length, datalength) ==
  IF length > 0 THEN (IF length >= datalength THEN length - datalength ELSE 0) ELSE length

\* for id in range(index, len(items)): ..., with r what the items of the
\* chunk before did.
RECURSIVE LoadChunks(_, _, _, _, _, _, _, _)
AfterDrain(r, a, id, left, prefix) == LoadChunks(r.m, a, id + 1, 0, left, r.buf, r.final, prefix)
FeedChunk(got, a, id, skipbytes, left, data, datalength, buf, final, prefix) ==
  IF skipbytes > datalength
  THEN LoadChunks(got, a, id + 1, skipbytes - datalength, left, buf, final, prefix)
  ELSE AfterDrain(Drain(got, a, buf \o SubSeq(data, skipbytes + 1, Len(data)), final, prefix),
                  a, id, left, prefix)
\* data = data[:length], when there is a budget and it is less than data.
Truncated(data, length) ==
  IF length > 0 /\ length < Len(data) THEN SubSeq(data, 1, length) ELSE data
LoadChunks(m, a, id, skipbytes, length, buf, final, prefix) ==
  IF m.err # "" \/ id >= Len(MetaOf(a).items) \/ length = 0 THEN [m |-> m, final |-> final]
  ELSE IF MetaOf(a).items[id + 1] \notin frepo
  THEN [m |-> [m EXCEPT !.fetched = Append(@, MetaOf(a).items[id + 1]), !.err = "ObjectNotFound"],
        final |-> final]
  ELSE FeedChunk([m EXCEPT !.fetched = Append(@, MetaOf(a).items[id + 1])], a, id,
                 skipbytes,
                 BudgetAfter(length, Len(PlainOf(a, id + 1))),
                 Truncated(PlainOf(a, id + 1), length), Len(PlainOf(a, id + 1)),
                 buf, final, prefix)

\* processed_items[index] = final_segments
MemoizedNever(r, ai, index) == r
Memoized(r, ai, index) ==
  IF r.m.err # "" THEN r
  ELSE [m |-> [r.m EXCEPT !.processed = Put(@, ai, Put(ProcessedOf(r.m, ai), index, r.final))],
        final |-> r.final]
\* _load_items_subset(items, processed_items, index, skipbytes, length,
\* prefix) for the archive at inode ai: the mount afterwards and what it
\* returns.
LoadItemsSubset(m, ai, index, skipbytes, length, prefix) ==
  IF index \in DOMAIN ProcessedOf(m, ai)
  THEN [m |-> m, final |-> ProcessedOf(m, ai)[index]]
  ELSE Memoized(LoadChunks(m, ArchiveAt(m, ai), index, skipbytes, length, << >>, << >>, prefix),
                ai, index)

\* The upward walk of _load_pending_item: from inode to an archive inode,
\* with the names on the way; "loop" when it does not end.
RECURSIVE WalkUp(_, _, _, _)
WalkUp(m, inode, acc, fuel) ==
  IF IsArchive(m, inode) THEN [res |-> "ok", ai |-> inode, names |-> acc]
  ELSE IF fuel = 0 THEN [res |-> "loop", ai |-> 0, names |-> acc]
  ELSE IF ~InItemnames(m, inode) \/ ~InParent(m, inode) THEN [res |-> "KeyError", ai |-> 0, names |-> acc]
  ELSE WalkUp(m, ParentAt(m, inode), Append(acc, ItemnameAt(m, inode)), fuel - 1)
Reverse(s) == [i \in 1..Len(s) |-> s[Len(s) + 1 - i]]
\* More steps than there are inodes with a parent.
WalkFuel(m) == Cardinality(DOMAIN m.parent) + 2

\* What _load_pending_item(inode, name) works out before it loads: the
\* archive inode, full_segments and prefix.  name "" is name=None.
PendingOf(m, inode, up) ==
  [res |-> IF inode = 1 /\ ~IsArchive(m, 1) THEN "return"
           ELSE IF up.res # "ok" THEN up.res
           ELSE IF ~HasProcessed(m, up.ai) THEN "KeyError"
           ELSE "ok",
   ai |-> up.ai,
   full |-> Reverse(up.names),
   prefix |-> IF up.ai # 1 THEN << ArchiveAt(m, up.ai) >> ELSE << >>]
Pending(m, inode, name) == PendingOf(m, inode, WalkUp(m, inode, << name >>, WalkFuel(m)))

\* for index, skipbytes, length in lookup_many(full_segments): ..., with r
\* what loading window i returned.
RECURSIVE LoadMany(_, _, _, _, _, _)
\* The same loop without its break.
AfterWindowNever(r, ai, ws, i, full, prefix) == LoadMany(r.m, ai, ws, i + 1, full, prefix)
AfterWindow(r, ai, ws, i, full, prefix) ==
  IF r.final # << >> /\ BFSGreater(IF prefix # << >> THEN Tail(r.final) ELSE r.final, full)
  THEN r.m
  ELSE LoadMany(r.m, ai, ws, i + 1, full, prefix)
LoadMany(m, ai, ws, i, full, prefix) ==
  IF m.err # "" \/ i > Len(ws) THEN m
  ELSE AfterWindow(LoadItemsSubset(m, ai, ws[i].index, ws[i].skipbytes, ws[i].length, prefix),
                   ai, ws, i, full, prefix)

\* _load_pending_item(inode, name), with w what metadata_index.lookup gives.
LoadWindows(m, p, a, name, w) ==
  IF MetaOf(a).version >= 2
  THEN IF name # ""
       THEN LoadItemsSubset(m, p.ai, w.index, w.skipbytes, w.length, p.prefix).m
       ELSE LoadMany(m, p.ai, IndexLookupMany(a, p.full), 1, p.full, p.prefix)
  ELSE LoadItemsSubset(m, p.ai, 0, 0, NoLength, p.prefix).m
LoadPending(m, p, name, w) ==
  IF p.res = "return" THEN m
  ELSE IF p.res # "ok" THEN [m EXCEPT !.err = p.res]
  ELSE LoadWindows(m, p, ArchiveAt(m, p.ai), name, w)
LoadPendingItem(m, inode, name, w) == LoadPending(m, Pending(m, inode, name), name, w)
NoWindow == [index |-> 0, skipbytes |-> 0, length |-> 0, holds |-> {}]
\* The windows metadata_index.lookup can give to that call.
WindowsFor(p, a, name) ==
  IF p.res = "ok" /\ MetaOf(a).version >= 2 /\ name # "" /\ WindowsOf(a) # << >>
  THEN IndexLookup(a, p.full)
  ELSE { NoWindow }
LookupWindows(m, p, name) == WindowsFor(p, ArchiveAt(m, p.ai), name)

\* getattr(inode): the fields of the entry that come from the item.
RECURSIVE SumSizes(_)
SumSizes(cs) == IF cs = << >> THEN 0 ELSE Head(cs)[2] + SumSizes(Tail(cs))
AttrOf(inode, g) ==
  IF ~g.ok THEN [res |-> "CacheError", val |-> << >>]
  ELSE [res |-> "ok",
        val |-> << [st_ino |-> inode, st_mode |-> g.item.mode,
                    st_nlink |-> IF g.item.nlink = 0 THEN 1 ELSE g.item.nlink,
                    st_size |-> SumSizes(g.item.chunks)] >>]
GetAttr(m, inode) == AttrOf(inode, GetItem(m, inode))

\* A request starts: nothing fetched yet.
Started(m) == [m EXCEPT !.fetched = << >>, !.err = ""]
\* The inodes and handles the mount has given out.
KnownInodes(m) ==
  { 1 } \cup UNION { { m.contents[d][n] : n \in DOMAIN m.contents[d] } : d \in DOMAIN m.contents }

\* lookup(parent_inode, name): the inode it finds after the load (0: none),
\* and what it answers.
Found(m, parent_inode, name) ==
  IF name = "." THEN parent_inode
  ELSE IF name = ".." THEN ParentAt(m, parent_inode)
  ELSE IF name \in DOMAIN ContentsAt(m, parent_inode) THEN ContentsAt(m, parent_inode)[name]
  ELSE 0
LookupAnswer(m, parent_inode, name, inode, attr) ==
  [op |-> "lookup", args |-> << parent_inode, name >>,
   res |-> IF m.err # "" THEN m.err
           ELSE IF name = ".." /\ ~InParent(m, parent_inode) THEN "KeyError"
           ELSE IF inode = 0 THEN "ENOENT"
           ELSE attr.res,
   val |-> IF m.err = "" /\ inode # 0 THEN attr.val ELSE << >>,
   fetched |-> m.fetched]
LookupFound(m, parent_inode, name, inode) ==
  /\ mnt' = Started(m)
  /\ fev' = LookupAnswer(m, parent_inode, name, inode, GetAttr(m, inode))
LookupLoaded(m, parent_inode, name) ==
  LookupFound(m, parent_inode, name, Found(m, parent_inode, name))
Lookup(parent_inode, name) ==
  /\ mnt.st = "mounted"
  /\ parent_inode \in KnownInodes(mnt)
  /\ Len(mnt.cache) < MaxCached
  /\ \E w \in LookupWindows(mnt, Pending(mnt, parent_inode, name), name) :
       LookupLoaded(LoadPendingItem(Started(mnt), parent_inode, name, w), parent_inode, name)
  /\ UNCHANGED << frepo, cacheVars, lockVars, unpackVars >>

\* opendir(inode)
OpendirLoaded(m, inode) ==
  /\ mnt' = Started(m)
  /\ fev' = [op |-> "opendir", args |-> << inode >>,
             res |-> IF m.err # "" THEN m.err ELSE "ok",
             val |-> IF m.err # "" THEN << >> ELSE << inode >>,
             fetched |-> m.fetched]
Opendir(inode) ==
  /\ mnt.st = "mounted"
  /\ inode \in KnownInodes(mnt)
  /\ Len(mnt.cache) < MaxCached
  /\ OpendirLoaded(LoadPendingItem(Started(mnt), inode, "", NoWindow), inode)
  /\ UNCHANGED << frepo, cacheVars, lockVars, unpackVars >>

\* getattr(inode)
Getattr(inode) ==
  /\ mnt.st = "mounted"
  /\ inode \in KnownInodes(mnt)
  /\ fev' = [op |-> "getattr", args |-> << inode >>, res |-> GetAttr(mnt, inode).res,
             val |-> GetAttr(mnt, inode).val, fetched |-> << >>]
  /\ UNCHANGED << mnt, frepo, cacheVars, lockVars, unpackVars >>

\* The loop of read over the chunks of the item.
Min(a, b) == IF a <= b THEN a ELSE b
\* chunk[offset:offset+n]
SliceFromStart(chunk, offset, n) == SubSeq(chunk, 1, n)
Slice(chunk, offset, n) == SubSeq(chunk, offset + 1, offset + n)
RECURSIVE ReadChunks(_, _, _, _, _)
ReadChunks(cs, i, offset, size, acc) ==
  IF i > Len(cs) THEN acc
  ELSE IF cs[i][2] < offset THEN ReadChunks(cs, i + 1, offset - cs[i][2], size, acc)
  ELSE LET n == Min(size, cs[i][2] - offset)
           got == [acc EXCEPT !.fetched = Append(@, cs[i][1])]
           part == Slice(DataOf(cs[i][1]), offset, n)
       IN IF cs[i][1] \notin frepo THEN [got EXCEPT !.res = "ObjectNotFound"]
          ELSE IF size - n = 0 THEN [got EXCEPT !.parts = @ \o part]
          ELSE ReadChunks(cs, i + 1, 0, size - n, [got EXCEPT !.parts = @ \o part])

\* read(fh, offset, size)
Read(fh, offset, size) ==
  /\ mnt.st = "mounted"
  /\ fh \in KnownInodes(mnt)
  /\ LET g == GetItem(mnt, fh)
         r == ReadChunks(g.item.chunks, 1, offset, size, [parts |-> << >>, fetched |-> << >>, res |-> "ok"])
     IN fev' = [op |-> "read", args |-> << fh, offset, size >>,
                res |-> IF ~g.ok THEN "CacheError"
                        ELSE IF g.item.chunks = << >> THEN "KeyError"
                        ELSE r.res,
                val |-> IF g.ok /\ g.item.chunks # << >> /\ r.res = "ok" THEN r.parts ELSE << >>,
                fetched |-> IF g.ok THEN r.fetched ELSE << >>]
  /\ UNCHANGED << mnt, frepo, cacheVars, lockVars, unpackVars >>

\* The ids the repository of the mount can have, and the names asked for.
MountIds == { "k1", "k2", "k3", "k4", "k5", "c1", "c2", "c3", "c4" }
LookupNames == Names \cup { ".", ".." }
\* A mount of a repository whose manifest has n archives, n in counts, the
\* two with items first, or
\* of one archive of singles, on a repository that lacks the ids of one
\* set of losts.
MountInit(counts, singles, losts) ==
  /\ CacheInit
  /\ LockInit
  /\ UnpackIdle
  /\ \E narch \in counts, archive \in { "" } \cup singles :
       /\ archive # "" => narch = 2
       /\ mnt = Mounted(archive, << "A", "B" >>, narch)
  /\ fev = NoFuseEv
  /\ \E lost \in losts : frepo = MountIds \ lost

\* Mounts with two archives or with as many as there are inodes below the
\* first handle, and mounts of one archive.
FuseInit == MountInit({ 2, BaseOffset - 1 }, { "A" }, { {}, { "k2" } })
\* Mounts with two archives on a repository that lacks a chunk of a file.
ReadInit == MountInit({ 2 }, {}, { {}, { "c2" } })
\* A mount with as many archives as the first handle of the item cache.
WalkInit == MountInit({ BaseOffset }, {}, { {} })
\* A mount of a repository with the one archive T, whose index has three
\* windows, or with the one archive S, whose two windows start in the same
\* chunk, on a repository that may lack a chunk of the items of T.
DirIds == { "t1", "t2", "t3", "s1", "c1", "c4" }
DirInit ==
  /\ CacheInit
  /\ LockInit
  /\ UnpackIdle
  /\ \E a \in { "T", "S" } : mnt = Mounted("", << a >>, 1)
  /\ fev = NoFuseEv
  /\ \E lost \in { {}, { "t2" } } : frepo = DirIds \ lost

\* --------------------------------------------------------- specifications
\* The steps of the constructor, of begin_txn and of commit.
Steps ==
  \/ RollbackTmp
  \/ RollbackCopy
  \/ RollbackWrite
  \/ RollbackRename
  \/ RollbackRm
  \/ Load
  \/ BeginMkdir
  \/ BeginCopy
  \/ BeginRename
  \/ ChunkAfterBegin
  \/ Sync
  \/ CommitFiles
  \/ CommitFilesWrite
  \/ CommitConfig
  \/ CommitConfigWrite
  \/ CommitChunks
  \/ CommitRename
  \/ CommitRm

\* The transaction protocol: one chunk id, one path, every constructor
\* argument, and a process that can die at any statement.
Next ==
  \/ \E m \in Manifests, s \in BOOLEAN, df \in BOOLEAN : New(m, s, df)
  \/ Steps
  \/ BeginTxn
  \/ AddChunk("a", 1)
  \/ ChunkDecref("a")
  \/ Commit
  \/ \E st \in FileStats : FileKnownAndUnchanged("p", st)
  \/ \E st \in FileStats, ids \in FileIds : MemorizeFile("p", st, ids)
  \/ Crash

Spec == Init /\ [][Next]_vars


\* Reference counting: two chunk ids, two plaintext lengths, every chunk
\* operation, sessions that sync and end with close().
RefNext ==
  \/ \E m \in Manifests : New(m, TRUE, FALSE)
  \/ RollbackTmp
  \/ RollbackCopy
  \/ RollbackWrite
  \/ RollbackRename
  \/ RollbackRm
  \/ Load
  \/ BeginMkdir
  \/ BeginCopy
  \/ BeginRename
  \/ ChunkAfterBegin
  \/ Sync
  \/ CommitFiles
  \/ CommitConfig
  \/ CommitConfigWrite
  \/ CommitChunks
  \/ CommitRename
  \/ CommitRm
  \/ \E id \in Ids, size \in Sizes : AddChunk(id, size)
  \/ \E id \in Ids, f \in { "encrypt", "put" } : AddChunkFails(id, 1, f)
  \/ \E id \in Ids : ChunkIncref(id)
  \/ \E id \in Ids : ChunkDecref(id)
  \/ Commit
  \/ Close

RefSpec == Init /\ [][RefNext]_vars


\* The files cache: two paths, sessions with do_files that look files up,
\* memorize them, commit and end with close().
FilesNext ==
  \/ \E m \in Manifests : m.refs = << >> /\ New(m, FALSE, TRUE)
  \/ RollbackTmp
  \/ RollbackCopy
  \/ RollbackWrite
  \/ RollbackRename
  \/ RollbackRm
  \/ Load
  \/ BeginTxn
  \/ BeginMkdir
  \/ BeginCopy
  \/ BeginRename
  \/ Commit
  \/ CommitFiles
  \/ CommitFilesWrite
  \/ CommitConfig
  \/ CommitConfigWrite
  \/ CommitChunks
  \/ CommitRename
  \/ CommitRm
  \/ \E h \in PathHashes, st \in LookupStats : FileKnownAndUnchanged(h, st)
  \/ \E st \in FileStats, ids \in FileIds : MemorizeFile("p", st, ids)
  \/ \E ids \in FileIds : MemorizeFile("q", NewStat, ids)
  \/ Close

FilesSpec == Init /\ [][FilesNext]_vars


\* The advisory lock: two processes lock the same file.
LockNext ==
  \/ \E p \in Procs, x \in BOOLEAN, w \in BOOLEAN : LockNew(p, x, w)
  \/ \E p \in Procs : LockGrant(p)
  \/ \E p \in Procs : LockUpgrade(p)
  \/ \E p \in Procs : LockRelease(p)

LockSpec == Init /\ [][LockNext]_vars


\* The unpacker, fed an input chunk by chunk without resync.
UnpackNext ==
  \/ UFeed
  \/ UNext

UnpackSpec == UnpackInit /\ [][UnpackNext]_vars


\* The unpacker, fed an input with one resync() in it.
ResyncNext ==
  \/ UFeed
  \/ UNext
  \/ UResync

ResyncSpec == ResyncInit /\ [][ResyncNext]_vars


\* The mount: every request on every inode it has given out.
FuseNext ==
  \/ \E inode \in KnownInodes(mnt), name \in LookupNames : Lookup(inode, name)
  \/ \E inode \in KnownInodes(mnt) : Opendir(inode)
  \/ \E inode \in KnownInodes(mnt) : Getattr(inode)

FuseSpec == FuseInit /\ [][FuseNext]_vars


\* Reads: the files are looked up by name, then read at every offset.
ReadNext ==
  \/ \E inode \in KnownInodes(mnt), name \in { "d", "f" } : Lookup(inode, name)
  \/ \E fh \in KnownInodes(mnt), offset \in 0..MaxOffset, size \in 0..MaxRead : Read(fh, offset, size)

ReadSpec == ReadInit /\ [][ReadNext]_vars


\* The requests of a mount on that repository.
WalkSpec == WalkInit /\ [][FuseNext]_vars


\* Sessions without sync on one chunk id, whose process can die at any
\* statement: every entry of the index comes from an add_chunk.
CrashNext ==
  \/ \E m \in Manifests : m.refs = << >> /\ New(m, FALSE, FALSE)
  \/ RollbackTmp
  \/ RollbackCopy
  \/ RollbackWrite
  \/ RollbackRename
  \/ RollbackRm
  \/ Load
  \/ BeginMkdir
  \/ BeginCopy
  \/ BeginRename
  \/ ChunkAfterBegin
  \/ CommitFiles
  \/ CommitConfig
  \/ CommitConfigWrite
  \/ CommitChunks
  \/ CommitRename
  \/ CommitRm
  \/ AddChunk("a", 1)
  \/ ChunkIncref("a")
  \/ ChunkDecref("a")
  \/ Commit
  \/ Crash

CrashSpec == Init /\ [][CrashNext]_vars


\* Directories of T are opened and its names looked up, in every order.
DirNext ==
  \/ \E inode \in KnownInodes(mnt), name \in { "T", "S", "d", "e", "f", "j" } : Lookup(inode, name)
  \/ \E inode \in KnownInodes(mnt) : Opendir(inode)

DirSpec == DirInit /\ [][DirNext]_vars


\* Two processes that each open a session on the same cache directory, begin
\* and commit transactions and close it.
SessionNext ==
  \/ \E p \in Procs : SessOpen(p)
  \/ \E p \in Procs : SessGranted(p)
  \/ \E p \in Procs : SessRollback(p)
  \/ \E p \in Procs : SessRead(p)
  \/ \E p \in Procs : SessBeginTxn(p)
  \/ \E p \in Procs : SessCommit(p)
  \/ \E p \in Procs : SessClose(p)

SessionSpec == Init /\ [][SessionNext]_vars


\* sync alone: the index a session has loaded, with entries the manifest's
\* archives do not reference, is rebuilt from one or two archives.
SyncNext == Sync

SyncSpec == SyncInit /\ [][SyncNext]_vars


\* ------------------------------------------------------------------ claims
NoTxnDirs == ~tmp.exists /\ ~active.exists
RolledBack == pc = << "load", 0 >>

\* C1: crash atomicity.  Whenever a process has died, at whatever statement,
\* and the next constructor has run rollback, config, chunks and files are
\* whole and are together either the three files as they were when the last
\* begin_txn started or the three files the last commit set out to write.
CrashAtomicity ==
  RolledBack => /\ torn = {}
                /\ NoTxnDirs
                /\ disk = gPre \/ disk = gPost

\* A process died in the tail of a commit that changed the chunk index, and
\* the next rollback left the new snapshot.
CrashAtomicityWitness ==
  /\ RolledBack
  /\ ~gDied
  /\ gPre.chunks # gPost.chunks
  /\ disk = gPost

\* C2: rollback postcondition.  When the last process died with txn.active
\* on disk, rollback leaves the three files as they were when that
\* transaction began, leaves neither txn.tmp nor txn.active, and the mkdir
\* and the rename of the next begin_txn find nothing in their way.
RollbackRestores ==
  gDied =>
    /\ RolledBack => (disk = gPre /\ torn = {} /\ NoTxnDirs)
    /\ (pc = << "b_mkdir", 0 >> /\ ~txn_active) => NoTxnDirs
    /\ (pc = << "b_rename", 0 >> /\ ~txn_active) => ~RenameFails(tmp, active)
    /\ (ev.op = "begin" /\ ev.res = "ok") => (txn_active /\ active = DirOf(gPre) /\ ~tmp.exists)
    /\ (ev.op = "begin" /\ ev.res # "ok") => txn_active

\* A process died after its commit had rewritten files; rollback has run.
RollbackRestoresWitness ==
  /\ RolledBack
  /\ gDied
  /\ gPost.files # gPre.files
  /\ gPost.chunks # gPre.chunks
  /\ disk = gPre

\* C3: txn.tmp and txn.active never exist together, and txn.tmp does not
\* exist when no call is in progress.
OneTxnDir ==
  /\ ~(tmp.exists /\ active.exists)
  /\ pc \in { Idle, Closed } /\ ev.op # "crash" => ~tmp.exists

\* C4: commit ordering.  The steps of a commit reach the disk in the order
\* files (when the files cache is loaded), config, chunks, rename; and while
\* any of the three files is truncated, or a commit has not renamed yet,
\* txn.active holds the snapshot taken by begin_txn.
IsPrefix(a, b) == Len(a) <= Len(b) /\ a = SubSeq(b, 1, Len(a))
CommitOrdered ==
  /\ \/ IsPrefix(gLog, << "files", "config", "chunks", "rename" >>)
     \/ IsPrefix(gLog, << "config", "chunks", "rename" >>)
  /\ torn # {} => active = DirOf(gPre)
  /\ (pc[1] \in { "commit", "commit_w" } /\ gLog # << >> /\ gLog[Len(gLog)] # "rename")
       => active = DirOf(gPre)

\* files is written, config is truncated, and txn.active holds the snapshot.
CommitOrderedWitness ==
  /\ pc[1] = "commit_w"
  /\ torn = { "config" }
  /\ gLog = << "files" >>
  /\ disk.files # gPre.files
  /\ active = DirOf(gPre)

\* C5: no entry of the chunk index has refcount 0, in memory or in the
\* chunks file.
RefcountPositive ==
  /\ \A id \in DOMAIN chunks : chunks[id][1] >= 1
  /\ \A b \in disk.chunks : b[2] >= 1

\* A decref left its entry in the index, and a commit has written that index.
RefcountPositiveWitness ==
  /\ ev.op = "commit"
  /\ ev.res = "ok"
  /\ gRef["a"] = 1
  /\ gRef["b"] = 2
  /\ disk.chunks = ChunkIndexWrite(chunks)

\* C6: chunk_decref deletes exactly at the last reference.  With gRef the
\* references taken (by sync, add_chunk, chunk_incref) minus those dropped,
\* the refcount of every id is gRef; a decref that drops the last one erases
\* the entry and calls repository.delete once; any other decref lowers the
\* refcount by 1 and calls no delete.
InSession == pc[1] \notin { "closed", "rb_tmp", "rb_copy", "rb_write", "rb_rename", "rb_rm", "load" }
DecrefDeletesAtLast ==
  /\ InSession => \A id \in Ids : Count(chunks, id) = gRef[id] /\ (id \in DOMAIN chunks <=> gRef[id] > 0)
  /\ (ev.op = "decref" /\ ev.res = "ok") =>
       /\ ev.dels = IF gRef[ev.id] = 0 THEN 1 ELSE 0
       /\ gRef[ev.id] > 0 => chunks[ev.id] = << ev.old[1] - 1, ev.old[2], ev.old[3] >>

\* The decref of the only reference: the entry is gone, one delete was called.
DecrefDeletesAtLastWitness ==
  /\ ev.op = "decref"
  /\ ev.res = "ok"
  /\ ev.old[1] = 1
  /\ ev.dels = 1
  /\ ev.id \notin DOMAIN chunks

\* C7: add_chunk deduplicates.  For an id in the index: no encrypt, no put,
\* refcount + 1, size and csize kept.  For an id not in it: one put and the
\* entry (1, len(data), len(ciphertext)).  A transaction is active afterwards.
AddChunkDedups ==
  (ev.op = "add" /\ ev.res = "ok") =>
    /\ txn_active
    /\ active.exists
    /\ IF ev.old # << >>
       THEN /\ ev.encs = 0
            /\ ev.puts = 0
            /\ chunks[ev.id] = << ev.old[1] + 1, ev.old[2], ev.old[3] >>
            /\ ev.ret = << ev.id, ev.old[2], ev.old[3] >>
       ELSE /\ ev.puts = 1
            /\ chunks[ev.id] = << 1, ev.size, EncryptLen(ev.size) >>
            /\ ev.ret = << ev.id, ev.size, EncryptLen(ev.size) >>

\* add_chunk for an id already in the index, with data of another length.
AddChunkDedupsWitness ==
  /\ ev.op = "add"
  /\ ev.res = "ok"
  /\ ev.old # << >>
  /\ ev.size # ev.old[2]
  /\ ev.puts = 0

\* C8: commit / reopen round trip.  When the last commit completed and no
\* transaction was begun since, a constructor that does not sync reads back
\* the index that was in memory when that commit was called.
NewWithoutSync == ev.op = "new" /\ ev.res = "ok" /\ pc = Idle
RoundTrip == (NewWithoutSync /\ gClean) => chunks = gIdx

\* An index with two references to a was committed and read back.
RoundTripWitness ==
  /\ NewWithoutSync
  /\ gClean
  /\ Unhexlify(disk.config.manifest) = manifest.id
  /\ Count(chunks, "a") = 2

\* C9, as stated: from a committed state (the files cache, if loaded, holds
\* the entries of the files file, nothing memorized), a commit right after
\* begin_txn leaves chunks and files as they were and changes config in
\* manifest and timestamp only.
NullCommit == ev.op = "commit" /\ ev.res = "ok" /\ ev.null
SameButManifest(c, d) ==
  [c EXCEPT !.manifest = << >>, !.timestamp = 0] = [d EXCEPT !.manifest = << >>, !.timestamp = 0]
SameEntries(fs, file) ==
  /\ DOMAIN fs = DOMAIN file
  /\ \A h \in DOMAIN fs : [fs[h] EXCEPT !.age = 0] = [file[h] EXCEPT !.age = 0]
NullTxnKeepsAll ==
  (NullCommit /\ (files_loaded => SameEntries(files, ev.old[1].files))) =>
    /\ disk.chunks = ev.old[1].chunks
    /\ disk.files = ev.old[1].files
    /\ SameButManifest(disk.config, ev.old[1].config)

\* C9, amended: ... leaves chunks as it was, leaves files as it was when the
\* files cache was not loaded in the session, and changes config in manifest
\* and timestamp only.
NullTxnKeepsUnloaded ==
  NullCommit => /\ disk.chunks = ev.old[1].chunks
                /\ ~files_loaded => disk.files = ev.old[1].files
                /\ SameButManifest(disk.config, ev.old[1].config)
                /\ disk.config.manifest = Hexlify(manifest.id)
                /\ disk.config.timestamp = manifest.timestamp

\* A null transaction over a non-empty index and files cache that moved
\* config to another manifest.
NullTxnWitness ==
  /\ NullCommit
  /\ ~files_loaded
  /\ disk.chunks # {}
  /\ disk.files # EmptyMap
  /\ disk.config # ev.old[1].config

\* C10: replay guard.  The constructor raises RepositoryReplay exactly when
\* sync is asked for, the manifest id differs from the recorded one and the
\* recorded timestamp is greater than the manifest's; then no transaction
\* directory exists, and config, chunks and files are whole, a committed
\* snapshot, with config still recording the old manifest.  With a recorded
\* timestamp that is not greater, sync goes ahead.
Constructed == ev.op \in { "new", "open" } /\ ev.res \in { "ok", "sync", "RepositoryReplay" }
ReplayRefused ==
  Constructed =>
    LET recorded == ev.old
        given == ev.new
        mismatch == given[3] /\ given[1] # recorded[1]
    IN /\ ev.res = "RepositoryReplay" <=> (mismatch /\ recorded[2] # 0 /\ recorded[2] > given[2])
       /\ ev.res = "sync" <=> (mismatch /\ ~(recorded[2] # 0 /\ recorded[2] > given[2]))
       /\ ev.res = "sync" => pc # Closed /\ cont.op = "sync"
       /\ ev.res = "RepositoryReplay" =>
            /\ pc = Closed
            /\ NoTxnDirs
            /\ torn = {}
            /\ disk = gPre \/ disk = gPost
            /\ Unhexlify(disk.config.manifest) = recorded[1]
            /\ disk.config.timestamp = recorded[2]

\* The constructor refused a manifest older than the cache.
ReplayRefusedWitness ==
  /\ ev.op = "new"
  /\ ev.res = "RepositoryReplay"
  /\ disk.chunks # {}

\* C11: sync converges.  A constructor called with sync and a manifest id
\* other than the recorded one syncs and commits: config then records the
\* manifest's id in hex and its timestamp, chunks is the index rebuilt from
\* the manifest (no entry for a manifest without archives), no transaction is
\* active and no transaction directory is left.  Called with the recorded
\* manifest id it returns without sync (no begin_txn, no repository read),
\* config still recording that manifest.
Synced == ev.op = "new" /\ ev.res = "synced"
SyncConverges ==
  /\ Synced =>
       /\ pc = Idle
       /\ ~txn_active
       /\ NoTxnDirs
       /\ torn = {}
       /\ disk.config.manifest = Hexlify(manifest.id)
       /\ disk.config.timestamp = manifest.timestamp
       /\ ChunkIndexRead(disk.chunks) = SyncIndex(manifest.refs)
       /\ manifest.refs = << >> => Cardinality(disk.chunks) = 0
  /\ (Constructed /\ ev.new[3] /\ ev.old[1] = ev.new[1]) =>
       /\ ev.res = "ok"
       /\ pc = Idle
       /\ cont = NoCont
       /\ ~txn_active
       /\ NoTxnDirs
       /\ disk.config.manifest = Hexlify(manifest.id)
       /\ disk.config.timestamp = manifest.timestamp
  /\ (Constructed /\ ev.res = "sync") => (ev.new[3] /\ ev.old[1] # ev.new[1])

\* A sync to a manifest without archives emptied an index that had entries.
SyncConvergesWitness ==
  /\ Synced
  /\ manifest.refs = << >>
  /\ ev.old[1].chunks # {}
  /\ disk.chunks = {}

\* C12: index / repository consistency within a session.  A step of a
\* session other than sync's rebuild, taken from a state where every id of
\* the index has a blob in the repository, leads to such a state; and
\* whenever a blob is deleted its id is no longer in the index.
Indexed == DOMAIN chunks \subseteq repo
RepoKeepsIndexed ==
  [][ /\ (InSession /\ InSession' /\ pc # << "sync", 0 >> /\ Indexed) => Indexed'
      /\ \A id \in repo \ repo' : id \notin DOMAIN chunks' ]_vars

\* With a and b in the index and in the repository, the last reference to a
\* was dropped: the blob of a is deleted, b keeps its blob.
RepoKeepsIndexedWitness ==
  /\ ev.op = "decref"
  /\ ev.dels = 1
  /\ ev.id \notin repo
  /\ chunks # EmptyMap
  /\ Indexed

\* C13: files-cache lookup.  With the files cache enabled,
\* file_known_and_unchanged returns the recorded ids exactly when path_hash
\* has an entry whose size, inode and mtime are those of st; the age of that
\* entry is then 0; otherwise None is returned and the entry is as it was.
LookupAnswers ==
  (ev.op = "lookup" /\ do_files) =>
    LET st == ev.new[1]
        known == ev.old # << >>
        same == /\ known
                /\ ev.old[1].size = st.st_size
                /\ ev.old[1].ino = st.st_ino
                /\ ev.old[1].mtime = st.st_mtime_ns
    IN /\ ev.res = "hit" <=> same
       /\ same => ev.ret = ev.old[1].ids
       /\ same => files[ev.id] = [ev.old[1] EXCEPT !.age = 0]
       /\ ~same => (ev.res = "None" /\ ev.ret = << >>)
       /\ (~same /\ known) => files[ev.id] = ev.old[1]
       /\ ~known => ev.id \notin DOMAIN files

\* A hit on an entry that had aged: its age is back to 0.
LookupAnswersWitness ==
  /\ ev.op = "lookup"
  /\ ev.res = "hit"
  /\ ev.old[1].age >= 2
  /\ files[ev.id].age = 0

\* C14: files-cache commit filter.  No entry of the files file has age 10 or
\* more.  After a commit of a session that loaded the files cache, the files
\* file holds exactly the in-memory entries with age < 10 and mtime below
\* _newest_mtime, as they are in memory; none has mtime = _newest_mtime.
CommitFilters ==
  /\ "files" \notin torn => \A h \in DOMAIN disk.files : disk.files[h].age < 10
  /\ (ev.op = "commit" /\ ev.res = "ok" /\ files_loaded) =>
       /\ DOMAIN disk.files \subseteq DOMAIN files
       /\ \A h \in DOMAIN files :
            h \in DOMAIN disk.files <=> (files[h].age < 10 /\ files[h].mtime < newest_mtime)
       /\ \A h \in DOMAIN disk.files :
            disk.files[h] = files[h] /\ disk.files[h].mtime # newest_mtime

\* An entry older than the newest mtime reached age 10 and was dropped for
\* its age alone.
CommitFiltersWitness ==
  /\ ev.op = "commit"
  /\ ev.res = "ok"
  /\ files_loaded
  /\ "p" \in DOMAIN files
  /\ files["p"].age = 10
  /\ files["p"].mtime < newest_mtime
  /\ "p" \notin DOMAIN disk.files

\* C15, as stated: an entry that was not hit or memorized in the session is
\* one run older in the files file after each commit than it was before it.
CommitDone == ev.op = "commit" /\ ev.res = "ok"
AgesPerCommit ==
  CommitDone =>
    \A h \in (DOMAIN ev.old[1].files \cap DOMAIN disk.files) \ gSeen :
      disk.files[h].age = ev.old[1].files[h].age + 1

\* C15, amended: after any commit of a session, an entry of the files file
\* that was not hit or memorized in the session and is still in the file is
\* one run older than at the start of the session when the session loaded
\* the files cache, and as old as it was when it did not.
AgesPerSession ==
  CommitDone =>
    \A h \in (DOMAIN gStart \cap DOMAIN disk.files) \ gSeen :
      disk.files[h].age = gStart[h].age + (IF files_loaded THEN 1 ELSE 0)

\* An entry that had aged before was carried across one more session.
AgesPerSessionWitness ==
  /\ CommitDone
  /\ files_loaded
  /\ "p" \in (DOMAIN gStart \cap DOMAIN disk.files) \ gSeen
  /\ gStart["p"].age = 2
  /\ disk.files["p"].age = 3

\* C16: memorize_file, called in a session with the files cache enabled,
\* stores the entry (0, inode, size, mtime, ids) for path_hash and raises
\* _newest_mtime to max(_newest_mtime, mtime).
MemorizeStores ==
  (ev.op = "memorize" /\ do_files) =>
    /\ ev.res = "ok"
    /\ ev.id \in DOMAIN files
    /\ files[ev.id] = [age |-> 0, ino |-> ev.new[1].st_ino, size |-> ev.new[1].st_size,
                        mtime |-> ev.new[1].st_mtime_ns, ids |-> ev.new[2]]
    /\ newest_mtime = Max(ev.old[1], ev.new[1].st_mtime_ns)

\* C17: release is idempotent.  Every call of release() succeeds and leaves
\* the lock released, also when the lock was released before.
ReleaseIdempotent ==
  lev.op = "release" => (lev.res = "ok" /\ lk[lev.p].held = "none")

\* C18: lock upgrade.  On a descriptor open for writing, upgrade() makes the
\* lock exclusive when the other process holds no lock, and fails with
\* LockUpgradeFailed, is_exclusive as before, when it holds one: the call
\* neither waits nor succeeds.
UpgradeFailsWhenContended ==
  (lev.op = "upgrade" /\ lk[lev.p].fd = "rw") =>
    IF lev.contended
    THEN lev.res = "LockUpgradeFailed" /\ lk[lev.p].is_exclusive = lev.was
    ELSE lev.res = "ok" /\ lk[lev.p].is_exclusive /\ lk[lev.p].held = "ex"

\* C19: failure inside a transaction.  A call of add_chunk in which encrypt
\* or put raises, and a call of chunk_incref or chunk_decref with an id that
\* is not in the index, leave the index as it was and call no stats.update;
\* a transaction is active afterwards, txn.active holds the snapshot taken
\* when it began, and config, chunks and files are still that snapshot.  If
\* the session ends there, the next rollback restores it.
Failures == { "KeyError", "EncryptError", "PutError" }
FailureLeavesIndex ==
  /\ [][ (ev'.op \in { "add", "incref", "decref" } /\ ev'.res \in Failures) =>
           /\ chunks' = chunks
           /\ ev'.stats = << >>
           /\ txn_active'
           /\ ~tmp'.exists
           /\ active' = DirOf(gPre')
           /\ disk' = gPre'
           /\ torn' = {} ]_vars
  /\ []((gDied /\ RolledBack) => (disk = gPre /\ torn = {} /\ NoTxnDirs))

\* repository.put raised in an add_chunk that had to begin the transaction:
\* the index still holds only the other id.
FailureLeavesIndexWitness ==
  /\ ev.op = "add"
  /\ ev.res = "PutError"
  /\ ev.id \notin DOMAIN chunks
  /\ chunks # EmptyMap
  /\ txn_active
  /\ active = DirOf(gPre)

\* What C20 expects of an input: every item, and every byte of garbage as
\* an integer, in the order of the input.
RECURSIVE Expected(_)
Expected(segs) ==
  IF segs = << >> THEN << >>
  ELSE << Item(Head(segs).v) >> \o [i \in 1..Len(Head(segs).g) |-> << "int", Head(segs).g[i] >>]
       \o Expected(Tail(segs))
AllFed == usrc # << >> /\ uleft = << >> /\ Step(umode, ubuf).st = "more"
PlainGarbage == \A i \in 1..Len(usrc) : \A j \in 1..Len(usrc[i].g) : usrc[i].g[j] < 128

\* C20, as stated: once the input is fed and taken, the output is the items
\* and the garbage bytes, as integers, in the order of the input.
GarbageAsBytes == AllFed => uout = Expected(usrc)

\* C20, amended: ... when every garbage byte is below 128; the output so far
\* is then always a prefix of it, and no byte is left in the buffer.
PlainGarbageAsBytes ==
  (usrc # << >> /\ PlainGarbage) =>
    /\ IsPrefix(uout, Expected(usrc))
    /\ umode = "synced"
    /\ AllFed => (uout = Expected(usrc) /\ ubuf = << >>)

\* Two items with the garbage 'g', 'a' between them came out in order.
PlainGarbageWitness ==
  /\ AllFed
  /\ Len(usrc) = 2
  /\ usrc[1].v # usrc[2].v
  /\ usrc[1].g = << 103, 97 >>
  /\ uout = << Item(usrc[1].v), << "int", 103 >>, << "int", 97 >>, Item(usrc[2].v) >>

\* The items packed one after the other at the start of b.
RECURSIVE ItemsOf(_)
ItemsOf(b) ==
  IF Len(b) >= Len(Pack(0)) /\ \E v \in ItemValues : SubSeq(b, 1, Len(Pack(0))) = Pack(v)
  THEN << Item(b[Len(Pack(0))]) >> \o ItemsOf(SubSeq(b, Len(Pack(0)) + 1, Len(b)))
  ELSE << >>
\* b from the first position where a packed item starts.
RECURSIVE FromFirstItem(_)
FromFirstItem(b) ==
  IF b = << >> \/ ItemsOf(b) # << >> THEN b ELSE FromFirstItem(Tail(b))

\* C21: the items complete before resync() are in the output as they were;
\* after resync() the output grows only by the items packed from the first
\* position of the later input where an item starts (what was pending and
\* the bytes before that position give nothing), and once all is fed and
\* taken the output is exactly the former followed by the latter.
ResyncSkips ==
  LET before == ItemsOf(ucut.pre)
      after == ItemsOf(FromFirstItem(ucut.post))
  IN /\ (ResyncDue /\ Step(umode, ubuf).st = "more") => uout = before
     /\ ucut.st = "done" =>
          /\ IsPrefix(before, uout)
          /\ IsPrefix(uout, before \o after)
          /\ AllFed => uout = before \o after

\* resync() was called with half an item pending, garbage and the rest of
\* that item were skipped, and the items after it came out.
ResyncSkipsWitness ==
  /\ ucut.st = "done"
  /\ AllFed
  /\ Len(ucut.pre) > Len(Pack(0))
  /\ Len(ucut.pre) % Len(Pack(0)) # 0
  /\ ucut.post # << >>
  /\ ucut.post[1] \in GarbageBytes
  /\ Len(usrc) = 3
  /\ uout = << Item(usrc[1].v), Item(usrc[3].v) >>

\* The ids of the items chunks of archive a from position id on, up to the
\* chunk in which a budget of left bytes runs out.
RECURSIVE WindowFetch(_, _, _)
WindowFetch(a, id, left) ==
  IF id >= Len(MetaOf(a).items) \/ left <= 0 THEN << >>
  ELSE << MetaOf(a).items[id + 1] >> \o WindowFetch(a, id + 1, left - MetaOf(a).cut[id + 1])

\* C22: a lookup(parent, name) below an archive of metadata version >= 2
\* fetches items chunks of one window only, a window the index gives for
\* the path: what it fetched is a prefix of the chunks from the window's
\* index up to the one where its length runs out, and when the load did not
\* fail it is all of them, or nothing for a window loaded before.
NamedLookupOneWindow ==
  (fev.op = "lookup" /\ Pending(mnt, fev.args[1], fev.args[2]).res = "ok") =>
    LET p == Pending(mnt, fev.args[1], fev.args[2])
        a == ArchiveAt(mnt, p.ai)
    IN MetaOf(a).version >= 2 =>
         \E w \in IndexLookup(a, p.full) :
           /\ IsPrefix(fev.fetched, WindowFetch(a, w.index, w.length))
           /\ fev.res \in { "ok", "ENOENT" } =>
                fev.fetched \in { << >>, WindowFetch(a, w.index, w.length) }

\* lookup of g in d of archive A fetched the second and the third items
\* chunk, the window of d/g, and answered.
NamedLookupWitness ==
  /\ fev.op = "lookup"
  /\ fev.args[2] = "g"
  /\ fev.res = "ok"
  /\ fev.fetched = << "k2", "k3" >>
  /\ IsPrefix(<< "d", "g" >>, Pending(mnt, fev.args[1], "g").full)

\* The names bound to inode in the directories of the mount.
BoundNames(m, inode) ==
  { << d, n >> \in UNION { { << e, x >> : x \in DOMAIN m.contents[e] } : e \in DOMAIN m.contents } :
      m.contents[d][n] = inode }

\* C23, as stated: getattr on an inode that k hard-link items were loaded
\* for, and that so has 1 + k names, reports nlink = 1 + k.
HardLinksCounted ==
  (fev.op = "getattr" /\ fev.res = "ok" /\ Cardinality(BoundNames(mnt, fev.args[1])) >= 2) =>
    fev.val[1].st_nlink = Cardinality(BoundNames(mnt, fev.args[1]))

\* The plaintexts of the chunks of a chunk list, one after the other.
RECURSIVE Whole(_)
Whole(cs) == IF cs = << >> THEN << >> ELSE DataOf(Head(cs)[1]) \o Whole(Tail(cs))
\* The bytes of b at positions [offset, offset + size).
Range(b, offset, size) ==
  IF offset >= Len(b) THEN << >> ELSE SubSeq(b, offset + 1, Min(offset + size, Len(b)))

\* C24: a read(fh, offset, size) that returns gives the bytes at positions
\* [offset, min(offset + size, total size)) of the chunk plaintexts of the
\* item one after the other, and nothing when offset is at or past the end.
ReadRange ==
  (fev.op = "read" /\ fev.res = "ok") =>
    /\ fev.val = Range(Whole(GetItem(mnt, fev.args[1]).item.chunks), fev.args[2], fev.args[3])
    /\ fev.args[2] >= Len(Whole(GetItem(mnt, fev.args[1]).item.chunks)) => fev.val = << >>

\* A read of three bytes from offset 1 of the file of chunks c1, c2, c3 gave
\* the end of the first chunk, the second and the start of the third.
ReadRangeWitness ==
  /\ fev.op = "read"
  /\ fev.res = "ok"
  /\ fev.args[2] = 1
  /\ fev.args[3] = 3
  /\ Len(GetItem(mnt, fev.args[1]).item.chunks) = 3
  /\ fev.val = << 12, 21, 31 >>

\* The ids of the chunks of cs, the first starting at byte start, that have
\* a byte in [offset, offset + size).
RECURSIVE Overlapping(_, _, _, _)
Overlapping(cs, start, offset, size) ==
  IF cs = << >> THEN << >>
  ELSE (IF start < offset + size /\ start + Head(cs)[2] > offset THEN << Head(cs)[1] >> ELSE << >>)
       \o Overlapping(Tail(cs), start + Head(cs)[2], offset, size)

\* C25, as stated: a read fetches only chunks that have a byte in
\* [offset, offset + size): none that ends at or before offset, none after
\* the range, and none at all when size is 0.
ReadFetchesOverlap ==
  (fev.op = "read" /\ fev.res \in { "ok", "ObjectNotFound" }) =>
    IsPrefix(fev.fetched,
             Overlapping(GetItem(mnt, fev.args[1]).item.chunks, 0, fev.args[2], fev.args[3]))

\* C26, as stated: a read on a file item whose range has bytes of a chunk
\* the repository has no blob for does not raise.
ReadToleratesMissing ==
  (/\ fev.op = "read"
   /\ GetItem(mnt, fev.args[1]).ok
   /\ \E i \in 1..Len(Overlapping(GetItem(mnt, fev.args[1]).item.chunks, 0, fev.args[2], fev.args[3])) :
        Overlapping(GetItem(mnt, fev.args[1]).item.chunks, 0, fev.args[2], fev.args[3])[i] \notin frepo) =>
    fev.res = "ok"

\* C27, as stated: no handle that ItemCache.add returned is an inode that
\* allocate_inode returned, and no two add calls returned the same handle.
InodeSpacesDisjoint ==
  mnt.st = "mounted" =>
    /\ \A i \in 1..Len(mnt.cache) :
         ~(mnt.cache[i].pos + BaseOffset >= 1 /\ mnt.cache[i].pos + BaseOffset <= mnt.inode_count)
    /\ \A i, j \in 1..Len(mnt.cache) : i # j => mnt.cache[i].pos # mnt.cache[j].pos

\* The places of the manifest's archives where a chunk id stands: the id of
\* archive i, items chunk j of it, chunk l of item k unpacked from that.
Places(as) ==
  { << i >> : i \in 1..Len(as) }
  \cup { << i, j >> : i \in 1..Len(as), j \in 1..1 + MaxChunks }
  \cup { << i, j, k, l >> : i \in 1..Len(as), j \in 1..1 + MaxChunks,
                            k \in 1..1 + MaxChunks, l \in 1..MaxChunks }
HasPlace(as, q) ==
  /\ Len(q) >= 2 => q[2] <= Len(as[q[1]].items)
  /\ Len(q) = 4 => /\ q[3] <= Len(as[q[1]].items[q[2]].found)
                   /\ q[4] <= Len(as[q[1]].items[q[2]].found[q[3]])
IdAt(as, q) ==
  IF Len(q) = 1 THEN as[q[1]].id
  ELSE IF Len(q) = 2 THEN as[q[1]].items[q[2]].key
  ELSE as[q[1]].items[q[2]].found[q[3]][q[4]][1]
Occurrences(as, id) == { q \in Places(as) : HasPlace(as, q) /\ IdAt(as, q) = id }
\* The first triple of refs with that id.
FirstRef(refs, id) ==
  refs[CHOOSE i \in 1..Len(refs) : refs[i][1] = id /\ \A j \in 1..(i - 1) : refs[j][1] # id]

\* C28: when sync's loop is done the index has exactly the ids that stand
\* somewhere in the manifest's archives (an archive's id, an id of its items
\* list, an id in the chunks of an item), each with the number of its places
\* as refcount and with the size and csize of its first occurrence; an entry
\* the index had before for another id is gone.
SyncResult ==
  (pc = << "commit", 1 >> /\ cont.op = "sync") =>
    LET as == manifest.archives
        ids == { IdAt(as, q) : q \in { r \in Places(as) : HasPlace(as, r) } }
    IN /\ DOMAIN chunks = ids
       /\ \A id \in ids :
            /\ chunks[id][1] = Cardinality(Occurrences(as, id))
            /\ chunks[id][2] = FirstRef(ArchivesRefs(as), id)[2]
            /\ chunks[id][3] = FirstRef(ArchivesRefs(as), id)[3]
       /\ \A id \in DOMAIN ChunkIndexRead(disk.chunks) : id \notin ids => id \notin DOMAIN chunks

\* Two archives were synced over an index that had z and c2 three times:
\* z is gone, the shared items chunk k1 counts 2, and c1, which stands in
\* four places, has the size and csize recorded at the first of them.
SyncResultWitness ==
  /\ pc = << "commit", 1 >>
  /\ cont.op = "sync"
  /\ Len(manifest.archives) = 2
  /\ ChunkIndexRead(disk.chunks) = ("z" :> << 1, 1, 2 >>) @@ ("c2" :> << 3, 2, 3 >>)
  /\ manifest.archives[1].items[1].found[2] = << << "c1", 1, 2 >>, << "c1", 2, 3 >> >>
  /\ DOMAIN chunks = { "r1", "r2", "k1", "k2", "c1" }
  /\ chunks["k1"] = << 2, 2, 3 >>
  /\ chunks["c1"] = << 4, 1, 2 >>

\* C29, as stated: with the lock of open held until close, the rollback of
\* a session never removes or restores over the txn.active of a live session
\* of the other process.
SingleWriter ==
  sess.ev.op = "rollback" => ~(sess.ev.found = Other(sess.ev.p) /\ sess.ev.live)

\* The request just answered was a lookup or an opendir on an inode that
\* was, before it, below an archive of metadata version < 2.
InOldArchive ==
  /\ mnt.st = "mounted"
  /\ fev'.op \in { "lookup", "opendir" }
  /\ LET p == Pending(mnt, fev'.args[1], IF fev'.op = "lookup" THEN fev'.args[2] ELSE "")
     IN p.res = "ok" /\ MetaOf(ArchiveAt(mnt, p.ai)).version < 2
\* Every item of archive a has its path bound in the mount m.
AllBound(m, a) ==
  \A i \in 1..Len(StreamOf(a)) : FindInode(m, << a >> \o StreamOf(a)[i].item.path, 1).ok

\* C30: the first lookup or opendir below an archive of metadata version < 2
\* fetches every chunk of its items list once, in order, and binds every
\* item; a later one fetches no items chunk.
WholeAndOnce ==
  [][InOldArchive =>
       LET p == Pending(mnt, fev'.args[1], IF fev'.op = "lookup" THEN fev'.args[2] ELSE "")
           a == ArchiveAt(mnt, p.ai)
       IN /\ IF 0 \in DOMAIN ProcessedOf(mnt, p.ai)
             THEN fev'.fetched = << >>
             ELSE fev'.fetched = MetaOf(a).items
          /\ 0 \in DOMAIN ProcessedOf(mnt', p.ai)
          /\ AllBound(mnt', a)]_vars

\* An opendir of archive B, of metadata version 1, fetched its two items
\* chunks, and both its items are bound.
WholeAndOnceWitness ==
  /\ fev.op = "opendir"
  /\ fev.res = "ok"
  /\ ArchiveAt(mnt, fev.args[1]) = "B"
  /\ fev.fetched = << "k4", "k5" >>
  /\ FindInode(mnt, << "B", "e", "j" >>, 1).ok
  /\ FindInode(mnt, << "B", "f" >>, 1).ok

\* ------------------------------------------------------------------ C31
\* The path of the last item window i of archive a holds.
LastPath(a, i) ==
  StreamOf(a)[CHOOSE k \in WindowsOf(a)[i].holds : \A l \in WindowsOf(a)[i].holds : l <= k].item.path
\* The first window of a whose last path is greater than target in
\* breadth-first order, or the last window when there is none.
StopAt(a, target) ==
  LET n == Len(WindowsOf(a))
      stops == { i \in 1..n : BFSGreater(LastPath(a, i), target) }
  IN IF stops = {} THEN n ELSE CHOOSE i \in stops : \A j \in stops : i <= j
\* The windows an opendir that succeeds leaves loaded, when it compares
\* with target(full_segments).
OpendirLoads(p, a, target) ==
  DOMAIN ProcessedOf(mnt', p.ai) =
    DOMAIN ProcessedOf(mnt, p.ai) \cup { WindowsOf(a)[i].index : i \in 1..StopAt(a, target) }
OpendirOfIndexed(target) ==
  /\ fev'.op = "opendir"
  /\ fev'.res = "ok"
  /\ Pending(mnt, fev'.args[1], "").res = "ok"
  /\ MetaOf(ArchiveAt(mnt, Pending(mnt, fev'.args[1], "").ai)).version >= 2
  => OpendirLoads(Pending(mnt, fev'.args[1], ""),
                  ArchiveAt(mnt, Pending(mnt, fev'.args[1], "").ai),
                  target)
\* The directory path without the empty segment that stands for name=None.
DirPath(full) == SubSeq(full, 1, Len(full) - 1)
\* C31 (amended): an opendir below an archive with metadata version >= 2
\* loads the windows of lookup_many in order up to and including the first
\* one whose last path is breadth-first greater than full_segments, which
\* is the path of the directory followed by one empty segment; it loads no
\* later window, and a window whose last path is not greater does not stop
\* it.
OpendirStops ==
  [][OpendirOfIndexed(Pending(mnt, fev'.args[1], "").full)]_vars
\* C31 (as stated): the same, comparing with the directory path itself.
OpendirStopsAtDirPath ==
  [][OpendirOfIndexed(DirPath(Pending(mnt, fev'.args[1], "").full))]_vars
\* opendir of T/d has gone past window 0, loaded before, has loaded window 1
\* and has stopped before window 2.
OpendirStopsWitness ==
  /\ fev.op = "opendir"
  /\ fev.res = "ok"
  /\ FindInode(mnt, << "T", "d" >>, 1).ok
  /\ fev.args[1] = FindInode(mnt, << "T", "d" >>, 1).inode
  /\ DOMAIN ProcessedOf(mnt, 2) = { 0, 1 }
  /\ fev.fetched = << "t2" >>

\* ------------------------------------------------------------------ C32
\* The paths of the items of archive a.
PathsOf(a) == { StreamOf(a)[i].item.path : i \in 1..Len(StreamOf(a)) }
\* The last request was lookup(parent, name) with parent a directory of an
\* archive in which the path of parent followed by name is the path of an
\* item.
LookupOfPresent(up) ==
  /\ up.res = "ok"
  /\ Reverse(up.names) \in PathsOf(ArchiveAt(mnt, up.ai))
\* C32: a lookup of a path that is present in an archive never answers
\* ENOENT, whatever lookups and opendirs came before it, and answers the
\* attributes when no chunk of the items is missing in the repository.
LookupComplete ==
  (fev.op = "lookup" /\ LookupOfPresent(WalkUp(mnt, fev.args[1], << fev.args[2] >>, WalkFuel(mnt))))
    => /\ fev.res # "ENOENT"
       /\ DirIds \subseteq frepo => fev.res = "ok"

\* ------------------------------------------------------------------ C33
\* C33: on a mount of one archive, lookup(1, name) and opendir(1) end
\* without an error when the repository has every chunk: a lookup answers
\* the attributes or ENOENT for a name that is not there, and opendir
\* answers its handle, with the items of the archive below inode 1.
SingleArchiveLoads ==
  (/\ mnt.archive # ""
   /\ fev.op \in { "lookup", "opendir" }
   /\ fev.args[1] = 1
   /\ MountIds \subseteq frepo)
    => /\ fev.res \in { "ok", "ENOENT" }
       /\ fev.op = "opendir" => DOMAIN ContentsAt(mnt, 1) # {}

\* ------------------------------------------------------------------ C34
\* C34: when a constructor has returned, after a session that died before
\* its commit or not, every id of the chunk index it has read has a blob in
\* the repository.
CrashKeepsBlobs ==
  (Constructed /\ pc = Idle) => DOMAIN chunks \subseteq repo

\* ------------------------------------------------------------------ C35
\* C35: a commit called without an active transaction returns at once: it
\* leaves config, chunks and files and the directories txn.tmp and
\* txn.active as they are.  file_known_and_unchanged and memorize_file
\* write nothing and begin no transaction, and inside a session the three
\* files are only written while a transaction is active, so what these two
\* change in memory reaches the files file only through the commit of a
\* transaction that something else began.
CommitWithoutTxn ==
  [][ /\ (pc = Idle /\ ~txn_active /\ ev'.op = "commit")
         => (UNCHANGED << disk, torn, tmp, active >> /\ pc' = Idle /\ ~txn_active')
      /\ (pc = Idle /\ ev'.op \in { "lookup", "memorize" })
         => (UNCHANGED << disk, torn, tmp, active >> /\ pc' = Idle /\ txn_active' = txn_active)
      /\ (InSession /\ (disk' # disk \/ torn' # torn)) => txn_active
      /\ (InSession /\ (tmp' # tmp \/ active' # active))
         => (txn_active \/ pc[1] \in { "b_mkdir", "b_copy", "b_rename" }) ]_vars
\* A commit without a transaction, in a session that memorized p: p is in
\* the files cache in memory and not in the files file.
CommitWithoutTxnWitness ==
  /\ ev.op = "commit"
  /\ ev.res = "noop"
  /\ ~txn_active
  /\ files_loaded
  /\ "p" \in DOMAIN files
  /\ "p" \notin DOMAIN disk.files

\* ------------------------------------------------------------------ C36
\* The entry of h in memory is the one the session started with, age reset:
\* file_known_and_unchanged hit for it in the session.
Revisited(h) ==
  /\ h \in gSeen
  /\ h \in DOMAIN gStart
  /\ h \in DOMAIN files
  /\ files[h] = [gStart[h] EXCEPT !.age = 0]
\* C36: after the commit of a transaction in a session, every entry that
\* file_known_and_unchanged hit for in the session is in the files file
\* with age 0.
RevisitedSurvive ==
  (CommitDone /\ files_loaded) =>
    \A h \in PathHashes : Revisited(h) => (h \in DOMAIN disk.files /\ disk.files[h].age = 0)

\* ------------------------------------------------------------------ C37
\* C37: a name that is bound in the contents of a directory stays bound to
\* the same inode in every later step of the mount.
BindingsStable ==
  [][\A d \in DOMAIN mnt.contents : \A n \in DOMAIN mnt.contents[d] :
       /\ d \in DOMAIN mnt'.contents
       /\ n \in DOMAIN mnt'.contents[d]
       /\ mnt'.contents[d][n] = mnt.contents[d][n]]_vars

\* ------------------------------------------------------------------ C38
\* The inodes a lookup can answer with, from which _load_pending_item walks
\* (it returns at once for the root of a repository mount).
Walked(m) == KnownInodes(m) \ (IF m.archive = "" THEN { 1 } ELSE {})
\* C38: from every inode the mount has given out, the walk along the parent
\* edges ends at an archive inode, with a name recorded at every inode on
\* the way, and no inode but 1 is its own parent.
WalkTerminates ==
  /\ \A inode \in Walked(mnt) : WalkUp(mnt, inode, << >>, WalkFuel(mnt)).res = "ok"
  /\ \A inode \in DOMAIN mnt.parent : mnt.parent[inode] = inode => inode = 1
====
